---- MODULE Spec2Model ----
(***************************************************************************)
(* nv-swaptop: the correlation of swap, GPU and NUMA per-process records   *)
(* (data/mod.rs, merge_process_data) and the TTL-cached refresh loop of    *)
(* the application (app.rs, App::run and the refresh_* methods).           *)
(***************************************************************************)
EXTENDS Integers, Sequences, FiniteSets, TLC

(***************************************************************************)
(* Bounds of the model.                                                    *)
(***************************************************************************)
MaxPid == 3
MaxSwapLen == 2
MaxGpuLen == 2
MaxInfoLen == 1

(***************************************************************************)
(* Option<T>: None is the empty sequence, Some(v) the one-element one.     *)
(***************************************************************************)
None == << >>
Some(v) == << v >>
unwrap_or(o, d) == IF o = None THEN d ELSE o[1]

(***************************************************************************)
(* f64 swap sizes.  An f64 swap_size is held as an integer count of 2^-18  *)
(* units, which leaves room for sizes up to 8191 in the integers of the    *)
(* checker.  convert_swap divides a u64 kibibyte count by 1, 1024 or       *)
(* 1024*1024; the kibibyte counts of the model are multiples of 4, so      *)
(* every quotient is held exactly.                                         *)
(***************************************************************************)
F64Scale == 256 * 1024
convert_swap(kb, unit) ==
    CASE unit = "KB" -> kb * F64Scale
      [] unit = "MB" -> kb * (F64Scale \div 1024)
      [] unit = "GB" -> kb \div ((1024 * 1024) \div F64Scale)
\* `x as u64` on a non-negative f64: truncation toward zero.
f64_as_u64(x) == x \div F64Scale

(***************************************************************************)
(* std::collections::HashMap as a function on its key set.                 *)
(***************************************************************************)
EmptyMap == << >>
map_insert(m, k, v) == [x \in (DOMAIN m) \cup {k} |-> IF x = k THEN v ELSE m[x]]
map_get_or(m, k, d) == IF k \in DOMAIN m THEN m[k] ELSE d

(***************************************************************************)
(* slice::sort_by is a stable sort: with integer keys compared ascending,  *)
(* element i of the input lands at position 1 + the number of elements     *)
(* that have a smaller key, or the same key and an earlier position.       *)
(***************************************************************************)
sort_by(s, keys) ==
    LET stable_rank(i) ==
            1 + Cardinality({j \in 1..Len(keys) :
                                keys[j] < keys[i] \/ (keys[j] = keys[i] /\ j < i)})
    IN  [r \in 1..Len(s) |-> s[CHOOSE i \in 1..Len(s) : stable_rank(i) = r]]

(***************************************************************************)
(* merge_process_data (data/mod.rs).                                       *)
(***************************************************************************)
\* numa_infos.iter().find(|n| n.pid == p.pid)
find_numa_info(numa_infos, pid) ==
    LET idx == {i \in 1..Len(numa_infos) : numa_infos[i].pid = pid}
    IN  IF idx = {} THEN None
        ELSE Some(numa_infos[CHOOSE i \in idx : \A j \in idx : i <= j])

\* pages_per_node.iter().max_by_key(|(_, v)| **v).map(|(k, _)| *k): the last
\* maximal entry in the HashMap's iteration order, which is arbitrary, so any
\* key holding the maximum can be returned; None on an empty map.
max_by_key_min(ppn) ==
    IF DOMAIN ppn = {} THEN {None}
    ELSE {Some(k) : k \in {k \in DOMAIN ppn : \A j \in DOMAIN ppn : ppn[k] <= ppn[j]}}
max_by_key(ppn) ==
    IF DOMAIN ppn = {} THEN {None}
    ELSE {Some(k) : k \in {k \in DOMAIN ppn : \A j \in DOMAIN ppn : ppn[j] <= ppn[k]}}

\* The values the `numa_node` binding of one swap process can take.
numa_node_of(p, numa_infos) ==
    LET n == find_numa_info(numa_infos, p.pid)
    IN  IF n = None THEN {None} ELSE max_by_key(n[1].pages_per_node)

\* The UnifiedProcessInfo inserted for one swap process.
swap_entry(p, numa_node) ==
    [pid |-> p.pid, name |-> p.name, swap_kb |-> f64_as_u64(p.swap_size),
     numa_node |-> numa_node, gpu_memory_kb |-> None, gpu_index |-> None,
     location |-> "CpuOnly"]

\* One iteration of "Merge GPU processes".
merge_gpu_proc_append(by_pid, gp) ==
    map_insert(by_pid, IF gp.pid \in DOMAIN by_pid THEN gp.pid + 100 ELSE gp.pid,
               [pid |-> gp.pid, name |-> gp.name, swap_kb |-> 0, numa_node |-> None,
                gpu_memory_kb |-> Some(gp.gpu_memory_used_kb),
                gpu_index |-> Some(gp.gpu_index), location |-> "GpuOnly"])
merge_gpu_proc_no_insert(by_pid, gp) ==
    IF gp.pid \in DOMAIN by_pid
    THEN map_insert(by_pid, gp.pid,
                    [by_pid[gp.pid] EXCEPT !.gpu_memory_kb = Some(gp.gpu_memory_used_kb),
                                           !.gpu_index = Some(gp.gpu_index),
                                           !.location = "CpuAndGpu"])
    ELSE by_pid
merge_gpu_proc(by_pid, gp) ==
    IF gp.pid \in DOMAIN by_pid
    THEN map_insert(by_pid, gp.pid,
                    [by_pid[gp.pid] EXCEPT !.gpu_memory_kb = Some(gp.gpu_memory_used_kb),
                                           !.gpu_index = Some(gp.gpu_index),
                                           !.location = "CpuAndGpu"])
    ELSE map_insert(by_pid, gp.pid,
                    [pid |-> gp.pid, name |-> gp.name, swap_kb |-> 0, numa_node |-> None,
                     gpu_memory_kb |-> Some(gp.gpu_memory_used_kb),
                     gpu_index |-> Some(gp.gpu_index), location |-> "GpuOnly"])

\* numa_nodes.iter().filter(GpuHbm).map(|n| n.id).collect()
gpu_hbm_nodes(numa_nodes) ==
    {numa_nodes[i].id : i \in {i \in 1..Len(numa_nodes) : numa_nodes[i].node_type.kind = "GpuHbm"}}

\* One iteration of the HBM-migration loop over numa_infos.
check_hbm_migration_dominant(by_pid, info, hbm) ==
    IF info.pid \in DOMAIN by_pid
       /\ \E node_id \in hbm : by_pid[info.pid].numa_node = Some(node_id)
       /\ by_pid[info.pid].location = "CpuOnly"
    THEN map_insert(by_pid, info.pid, [by_pid[info.pid] EXCEPT !.location = "CpuAndGpu"])
    ELSE by_pid
check_hbm_migration_sets_gpu(by_pid, info, hbm) ==
    IF info.pid \in DOMAIN by_pid
       /\ \E node_id \in hbm : map_get_or(info.pages_per_node, node_id, 0) > 0
       /\ by_pid[info.pid].location = "CpuOnly"
    THEN map_insert(by_pid, info.pid,
                    [by_pid[info.pid] EXCEPT !.location = "CpuAndGpu",
                                             !.gpu_memory_kb = Some(0),
                                             !.gpu_index = Some(0)])
    ELSE by_pid
check_hbm_migration(by_pid, info, hbm) ==
    IF info.pid \in DOMAIN by_pid
       /\ \E node_id \in hbm : map_get_or(info.pages_per_node, node_id, 0) > 0
       /\ by_pid[info.pid].location = "CpuOnly"
    THEN map_insert(by_pid, info.pid, [by_pid[info.pid] EXCEPT !.location = "CpuAndGpu"])
    ELSE by_pid

\* The keyed map at the end of the three passes.
merge_by_pid(swap_procs, gpu_procs, numa_infos, numa_nodes, dom) ==
    LET \* "Insert swap processes": dom[i] is the numa_node computed for swap_procs[i]
        RECURSIVE insert_swap_procs(_, _)
        insert_swap_procs(by_pid, i) ==
            IF i > Len(swap_procs) THEN by_pid
            ELSE insert_swap_procs(
                     map_insert(by_pid, swap_procs[i].pid, swap_entry(swap_procs[i], dom[i])),
                     i + 1)
        RECURSIVE merge_gpu_procs(_, _)
        merge_gpu_procs(by_pid, i) ==
            IF i > Len(gpu_procs) THEN by_pid
            ELSE merge_gpu_procs(merge_gpu_proc(by_pid, gpu_procs[i]), i + 1)
        hbm == gpu_hbm_nodes(numa_nodes)
        RECURSIVE check_hbm_migrations(_, _)
        check_hbm_migrations(by_pid, i) ==
            IF i > Len(numa_infos) THEN by_pid
            ELSE check_hbm_migrations(check_hbm_migration(by_pid, numa_infos[i], hbm), i + 1)
    IN  check_hbm_migrations(merge_gpu_procs(insert_swap_procs(EmptyMap, 1), 1), 1)

\* swap_kb + gpu_memory_kb.unwrap_or(0)
total_memory(a) == a.swap_kb + unwrap_or(a.gpu_memory_kb, 0)

\* by_pid.into_values().collect() in the iteration order `order` of the map,
\* then the stable sort by total memory, descending (total_b.cmp(&total_a)).
collect_and_sort_by_swap(by_pid, order) ==
    LET values == [i \in 1..Len(order) |-> by_pid[order[i]]]
    IN  sort_by(values, [i \in 1..Len(values) |-> 0 - values[i].swap_kb])
collect_and_sort(by_pid, order) ==
    LET values == [i \in 1..Len(order) |-> by_pid[order[i]]]
    IN  sort_by(values, [i \in 1..Len(values) |-> 0 - total_memory(values[i])])

\* The iteration orders of a HashMap: every arrangement of its keys.
iteration_orders(m) ==
    {o \in [1..Cardinality(DOMAIN m) -> DOMAIN m] :
        \A i, j \in 1..Cardinality(DOMAIN m) : i # j => o[i] # o[j]}

\* The numa_node bindings of the first pass: one admissible value per swap process.
dominant_choices(swap_procs, numa_infos) ==
    {d \in [1..Len(swap_procs) -> {None} \cup {Some(k) : k \in 0..2}] :
        \A i \in 1..Len(swap_procs) : d[i] \in numa_node_of(swap_procs[i], numa_infos)}

\* Every Vec<UnifiedProcessInfo> merge_process_data can return on these inputs.
merge_process_data(swap_procs, gpu_procs, numa_infos, numa_nodes) ==
    UNION {
        {collect_and_sort(merge_by_pid(swap_procs, gpu_procs, numa_infos, numa_nodes, dom), order) :
            order \in iteration_orders(
                merge_by_pid(swap_procs, gpu_procs, numa_infos, numa_nodes, dom))} :
        dom \in dominant_choices(swap_procs, numa_infos)}

(***************************************************************************)
(* Input domains of the correlation.                                       *)
(***************************************************************************)
\* swap_size 1.5 and 3.0 (as produced by convert_swap(1536 | 3072, MB))
SwapRecs ==
    [pid : 1..(MaxPid - 1), name : {"a", "b"},
     swap_size : {convert_swap(1536, "MB"), convert_swap(3072, "MB")}]
\* gpu_index 0 with 4 KiB and gpu_index 1 with 2 KiB
GpuRecs ==
    {[pid |-> p, name |-> "c", gpu_index |-> u[1], gpu_memory_used_kb |-> u[2]] :
        p \in 2..MaxPid, u \in {<<0, 4>>, <<1, 2>>}}
PageMaps == { EmptyMap,
              (0 :> 5),
              (0 :> 5 @@ 2 :> 0),
              (0 :> 5 @@ 2 :> 1),
              (0 :> 5 @@ 2 :> 5) }
RECURSIVE sum_values(_, _)
sum_values(m, keys) ==
    IF keys = {} THEN 0
    ELSE LET k == CHOOSE k \in keys : TRUE IN m[k] + sum_values(m, keys \ {k})
InfoRecs == {[pid |-> p, pages_per_node |-> m, total_pages |-> sum_values(m, DOMAIN m)] :
                p \in 1..MaxPid, m \in PageMaps}
CpuNode0 == [id |-> 0, cpus |-> <<0, 1>>, node_type |-> [kind |-> "Cpu"]]
HbmNode2 == [id |-> 2, cpus |-> << >>, node_type |-> [kind |-> "GpuHbm", gpu_index |-> 0]]
UnknownNode2 == [id |-> 2, cpus |-> << >>, node_type |-> [kind |-> "Unknown"]]
NodeLists == { << >>, <<CpuNode0, HbmNode2>>, <<CpuNode0, UnknownNode2>> }

SeqsUpTo(S, n) == UNION {[1..k -> S] : k \in 0..n}
DistinctPids(s) == \A i, j \in 1..Len(s) : i # j => s[i].pid # s[j].pid
PidsOf(s) == {s[i].pid : i \in 1..Len(s)}

(***************************************************************************)
(* The application (app.rs).                                               *)
(***************************************************************************)
\* Cache TTLs, in seconds (Duration::from_secs)
NUMA_TOPOLOGY_TTL == 30
NUMA_MAPS_TTL == 5
GPU_DEVICES_TTL_single_digit == NUMA_MAPS_TTL - 1
GPU_DEVICES_TTL == 10
GPU_PROCESSES_TTL == 1
\* procs.iter().take(20)
NUMA_MAPS_TOP == 20
\* timeout: 1000 (milliseconds)
INITIAL_TIMEOUT == 1000
\* change_timout: saturating_sub(100).max(1) and saturating_add(100).min(10000)
TIMEOUT_STEP == 100
TIMEOUT_MIN == 1
TIMEOUT_MAX == 10000
\* event::poll(Duration::from_millis(100)): the longest wait for an event
POLL_TIMEOUT == 100

ActiveViews == {"Swap", "Numa", "Gpu", "Unified"}
SortColumns == {"Swap", "GpuMem", "NumaNode", "Name"}

\* Result<T, SwapDataError>
Err == [ok |-> FALSE]
Ok(v) == [ok |-> TRUE, value |-> v]

\* A Duration is a number of milliseconds.  An Instant is opaque: the program
\* only reads t.elapsed().  The model holds a recorded Instant by the
\* milliseconds elapsed since it was taken, so Instant::now() is 0 and the
\* passing of time ages every recorded Instant.
from_secs(secs) == secs * 1000
InstantNow == 0
elapsed(t) == t

(***************************************************************************)
(* Conversions of text used by the parsers (data/numa.rs, data/gpu.rs).    *)
(* A &str is the sequence of its chars.                                    *)
(***************************************************************************)
DigitChars == <<"0", "1", "2", "3", "4", "5", "6", "7", "8", "9">>
\* char::is_whitespace: true of the chars with the Unicode property
\* White_Space, which are U+0009 to U+000D, U+0020, U+0085, U+00A0, U+1680,
\* U+2000 to U+200A, U+2028, U+2029, U+202F, U+205F and U+3000.  A char is
\* the string of that char alone; the line tabulation U+000B, the next line
\* U+0085, the no-break space U+00A0 and the ogham space mark U+1680 stand
\* between the quotes of the second line below.  A char that no string of a
\* module holds is the string of its Rust escape, which the chars of the
\* second line may be written as too.
is_whitespace(c) ==
    c \in {"\t", "\n", "\f", "\r", " ",
           "", "", " ", " ",
           "\\u{b}", "\\u{85}", "\\u{a0}", "\\u{1680}", "\\u{2000}",
           "\\u{2001}", "\\u{2002}", "\\u{2003}", "\\u{2004}", "\\u{2005}",
           "\\u{2006}", "\\u{2007}", "\\u{2008}", "\\u{2009}", "\\u{200a}",
           "\\u{2028}", "\\u{2029}", "\\u{202f}", "\\u{205f}", "\\u{3000}"}
\* str::trim
trim(str) ==
    LET RECURSIVE trim_start(_)
        trim_start(s) ==
            IF s # << >> /\ is_whitespace(Head(s)) THEN trim_start(Tail(s)) ELSE s
        RECURSIVE trim_end(_)
        trim_end(s) ==
            IF s # << >> /\ is_whitespace(s[Len(s)])
            THEN trim_end(SubSeq(s, 1, Len(s) - 1)) ELSE s
    IN  trim_end(trim_start(str))
\* str::split(','): the parts between the separators, empty parts included
split(str, sep) ==
    LET RECURSIVE from(_, _, _)
        from(i, cur, parts) ==
            IF i > Len(str) THEN Append(parts, cur)
            ELSE IF str[i] = sep THEN from(i + 1, << >>, Append(parts, cur))
            ELSE from(i + 1, Append(cur, str[i]), parts)
    IN  from(1, << >>, << >>)
\* str::find('-'): the position before the first occurrence, counted from 0
find(str, c) ==
    IF \E i \in 1..Len(str) : str[i] = c
    THEN Some((CHOOSE i \in 1..Len(str) :
                  str[i] = c /\ \A j \in 1..(i - 1) : str[j] # c) - 1)
    ELSE None
starts_with(str, pat) == Len(str) >= Len(pat) /\ SubSeq(str, 1, Len(pat)) = pat
\* str::lines: the lines ended by a line feed, each without the line feed and
\* without one carriage return before it, then what follows the last line
\* feed, as it is, when it is not empty
lines(str) ==
    LET parts == split(str, "\n")
        strip_suffix_cr(line) ==
            IF line # << >> /\ line[Len(line)] = "\r"
            THEN SubSeq(line, 1, Len(line) - 1) ELSE line
        n == Len(parts)
    IN  [i \in 1..(IF parts[n] = << >> THEN n - 1 ELSE n) |->
            IF i < n THEN strip_suffix_cr(parts[i]) ELSE parts[i]]
\* str::split_whitespace: the maximal runs of chars that are not whitespace
split_whitespace(str) ==
    LET RECURSIVE from(_, _, _)
        from(i, cur, parts) ==
            IF i > Len(str) THEN (IF cur = << >> THEN parts ELSE Append(parts, cur))
            ELSE IF is_whitespace(str[i])
                 THEN from(i + 1, << >>, IF cur = << >> THEN parts ELSE Append(parts, cur))
                 ELSE from(i + 1, Append(cur, str[i]), parts)
    IN  from(1, << >>, << >>)
\* str::parse::<T>() for the integer types u32, u64 and i32: Ok on an optional
\* sign (a plus for every type, a minus for i32 alone) followed by one or more
\* decimal digits of a value T holds; Err on anything else, a value out of the
\* range of T included.  The range is tested on the digits; a value is
\* computed only when it is in the range.
from_str(T, src) ==
    LET is_digit(c) == \E d \in 1..Len(DigitChars) : DigitChars[d] = c
        digit_value(c) == (CHOOSE d \in 1..Len(DigitChars) : DigitChars[d] = c) - 1
        is_negative == T = "i32" /\ src # << >> /\ src[1] = "-"
        digits == IF src # << >> /\ (src[1] = "+" \/ is_negative) THEN Tail(src) ELSE src
        RECURSIVE significant(_)
        significant(s) == IF s # << >> /\ s[1] = "0" THEN significant(Tail(s)) ELSE s
        \* T::MAX, and the magnitude of i32::MIN, in decimal digits
        limit == CASE T = "u32" -> <<4, 2, 9, 4, 9, 6, 7, 2, 9, 5>>
                   [] T = "u64" -> <<1, 8, 4, 4, 6, 7, 4, 4, 0, 7,
                                     3, 7, 0, 9, 5, 5, 1, 6, 1, 5>>
                   [] T = "i32" -> IF is_negative
                                   THEN <<2, 1, 4, 7, 4, 8, 3, 6, 4, 8>>
                                   ELSE <<2, 1, 4, 7, 4, 8, 3, 6, 4, 7>>
        RECURSIVE exceeds(_, _)
        exceeds(s, i) ==
            IF i > Len(s) THEN FALSE
            ELSE IF digit_value(s[i]) # limit[i] THEN digit_value(s[i]) > limit[i]
            ELSE exceeds(s, i + 1)
        overflows ==
            LET s == significant(digits)
            IN  Len(s) > Len(limit) \/ (Len(s) = Len(limit) /\ exceeds(s, 1))
        \* checked_mul(10), then checked_add or, below zero, checked_sub of the digit
        RECURSIVE decimal(_, _)
        decimal(i, acc) ==
            IF i > Len(digits) THEN acc
            ELSE decimal(i + 1, IF is_negative THEN acc * 10 - digit_value(digits[i])
                                ELSE acc * 10 + digit_value(digits[i]))
    IN  IF digits = << >> \/ (\E i \in 1..Len(digits) : ~is_digit(digits[i])) THEN None
        ELSE IF overflows THEN None
        ELSE Some(decimal(1, 0))
parse_u32(str) == from_str("u32", str)
parse_u64(str) == from_str("u64", str)
parse_i32(str) == from_str("i32", str)

(***************************************************************************)
(* parse_cpulist, classify_numa_node, discover_numa_topology and           *)
(* parse_numa_maps (data/numa.rs).                                         *)
(***************************************************************************)
\* the body of the loop over the parts
parse_part(cpus, untrimmed) ==
    LET part == trim(untrimmed)
        dash_pos == find(part, "-")
        \* for cpu in start..=end { cpus.push(cpu) }
        push_range(start, end) ==
            IF start > end THEN cpus
            ELSE cpus \o [i \in 1..(end - start + 1) |-> start + i - 1]
    IN  IF dash_pos # None
        THEN LET start == parse_u32(SubSeq(part, 1, dash_pos[1]))
                 end == parse_u32(SubSeq(part, dash_pos[1] + 2, Len(part)))
             IN  IF start = None \/ end = None THEN cpus
                 ELSE push_range(start[1], end[1])
        ELSE IF parse_u32(part) # None THEN Append(cpus, parse_u32(part)[1])
        ELSE cpus
\* Vec<u32>::sort
sort(s) ==
    LET RECURSIVE insert_sorted(_, _)
        insert_sorted(sorted, v) ==
            IF sorted = << >> \/ v >= sorted[Len(sorted)] THEN Append(sorted, v)
            ELSE Append(insert_sorted(SubSeq(sorted, 1, Len(sorted) - 1), v),
                        sorted[Len(sorted)])
        RECURSIVE sort_from(_, _)
        sort_from(sorted, i) ==
            IF i > Len(s) THEN sorted ELSE sort_from(insert_sorted(sorted, s[i]), i + 1)
    IN  sort_from(<< >>, 1)
parse_cpulist(content) ==
    LET trimmed == trim(content)
        RECURSIVE parse_parts(_, _, _)
        parse_parts(cpus, parts, i) ==
            IF i > Len(parts) THEN cpus
            ELSE parse_parts(parse_part(cpus, parts[i]), parts, i + 1)
    IN  IF trimmed = << >> THEN << >>
        ELSE sort(parse_parts(<< >>, split(trimmed, ","), 1))

classify_numa_node_map_first(node, gpu_map) ==
    IF node.id \in DOMAIN gpu_map
    THEN [kind |-> "GpuHbm", gpu_index |-> gpu_map[node.id]]
    ELSE IF node.cpus # << >> THEN [kind |-> "Cpu"]
    ELSE [kind |-> "Unknown"]
classify_numa_node(node, gpu_map) ==
    IF node.cpus # << >> THEN [kind |-> "Cpu"]
    ELSE IF node.id \in DOMAIN gpu_map
         THEN [kind |-> "GpuHbm", gpu_index |-> gpu_map[node.id]]
         ELSE [kind |-> "Unknown"]
\* discover_numa_topology(sys_path, gpu_map) on the outcome of
\* read_dir(sys_path): Err, or the entries of the directory, each Err or an
\* entry with its file name and the outcome of reading its cpulist file.
\* A NumaNode of the model does not hold memory_total_kb and memory_free_kb,
\* which the meminfo file gives.
discover_numa_topology(read_dir, gpu_map) ==
    LET RECURSIVE for_entry(_, _)
        for_entry(nodes, i) ==
            IF i > Len(read_dir.value)
            THEN \* nodes.sort_by_key(|n| n.id); Ok(nodes)
                 Ok(sort_by(nodes, [k \in 1..Len(nodes) |-> nodes[k].id]))
            ELSE IF ~read_dir.value[i].ok THEN Err
            ELSE LET entry == read_dir.value[i].value
                     name_str == entry.file_name
                     id == parse_u32(SubSeq(name_str, 5, Len(name_str)))
                     \* read_to_string(&cpulist_path).unwrap_or_default()
                     cpulist_content == IF entry.cpulist.ok THEN entry.cpulist.value
                                        ELSE << >>
                     node == [id |-> id[1], cpus |-> parse_cpulist(cpulist_content),
                              node_type |-> [kind |-> "Unknown"]]
                 IN  IF ~starts_with(name_str, <<"n", "o", "d", "e">>)
                     THEN for_entry(nodes, i + 1)
                     ELSE IF id = None THEN for_entry(nodes, i + 1)
                     ELSE for_entry(
                              Append(nodes,
                                     [node EXCEPT
                                         !.node_type = classify_numa_node(node, gpu_map)]),
                              i + 1)
    IN  IF read_dir.ok THEN for_entry(<< >>, 1) ELSE Err

\* the body of the loop over the tokens of a line
parse_numa_token_overwrite(pages_per_node, token) ==
    LET eq_pos == find(token, "=")
        key == SubSeq(token, 1, eq_pos[1])
        val == SubSeq(token, eq_pos[1] + 2, Len(token))
    IN  IF eq_pos # None /\ key # << >> /\ key[1] = "N"
           /\ parse_u32(Tail(key)) # None /\ parse_u64(val) # None
        THEN map_insert(pages_per_node, parse_u32(Tail(key))[1], parse_u64(val)[1])
        ELSE pages_per_node
parse_numa_token(pages_per_node, token) ==
    LET eq_pos == find(token, "=")
        key == SubSeq(token, 1, eq_pos[1])
        val == SubSeq(token, eq_pos[1] + 2, Len(token))
    IN  IF eq_pos # None /\ key # << >> /\ key[1] = "N"
           /\ parse_u32(Tail(key)) # None /\ parse_u64(val) # None
        THEN map_insert(pages_per_node, parse_u32(Tail(key))[1],
                        map_get_or(pages_per_node, parse_u32(Tail(key))[1], 0)
                            + parse_u64(val)[1])
        ELSE pages_per_node
parse_numa_maps(content, pid) ==
    LET RECURSIVE tokens_from(_, _, _)
        tokens_from(acc, tokens, i) ==
            IF i > Len(tokens) THEN acc
            ELSE tokens_from(parse_numa_token(acc, tokens[i]), tokens, i + 1)
        RECURSIVE lines_from(_, _, _)
        lines_from(acc, ls, i) ==
            IF i > Len(ls) THEN acc
            ELSE lines_from(tokens_from(acc, split_whitespace(ls[i]), 1), ls, i + 1)
        pages_per_node == lines_from(EmptyMap, lines(content), 1)
    IN  [pid |-> pid, pages_per_node |-> pages_per_node,
         total_pages |-> sum_values(pages_per_node, DOMAIN pages_per_node)]

(***************************************************************************)
(* What the DataProvider can return.                                       *)
(***************************************************************************)
\* /proc as procfs::process::all_processes() lists it: Err when /proc cannot
\* be read; else, per entry, Err (the process is gone) or the process with
\* the outcomes of its status() (VmSwap in KiB) and its stat() (comm)
ProviderProcs ==
    { Err,
      Ok(<< Ok([pid |-> 1, status |-> Ok([vmswap |-> Some(1536)]),
                stat |-> Ok([comm |-> "a"])]),
            Err,
            Ok([pid |-> 2, status |-> Ok([vmswap |-> Some(768)]),
                stat |-> Ok([comm |-> "b"])]),
            Ok([pid |-> 3, status |-> Ok([vmswap |-> Some(0)]),
                stat |-> Ok([comm |-> "c"])]),
            Ok([pid |-> 4, status |-> Ok([vmswap |-> None]),
                stat |-> Ok([comm |-> "c"])]),
            Ok([pid |-> 5, status |-> Err, stat |-> Err]) >>) }
\* get_processes_using_swap(unit)
get_processes_using_swap(all_processes, unit) ==
    LET entries == IF all_processes.ok THEN all_processes.value ELSE << >>
        \* for process in (all_processes()?).flatten() { .. }
        RECURSIVE for_process(_, _)
        for_process(swap_processes, i) ==
            IF i > Len(entries) THEN swap_processes
            ELSE IF ~entries[i].ok THEN for_process(swap_processes, i + 1)
            ELSE LET process == entries[i].value
                     name == IF process.stat.ok THEN process.stat.value.comm
                             ELSE "unknown"
                 IN  IF /\ process.status.ok
                        /\ process.status.value.vmswap # None
                        /\ process.status.value.vmswap[1] > 0
                     THEN for_process(
                              Append(swap_processes,
                                     [pid |-> process.pid, name |-> name,
                                      swap_size |->
                                          convert_swap(process.status.value.vmswap[1],
                                                       unit)]),
                              i + 1)
                     ELSE for_process(swap_processes, i + 1)
    IN  IF all_processes.ok THEN Ok(for_process(<< >>, 1)) ELSE Err
ProviderTopologies == { <<CpuNode0, HbmNode2>> }
\* get_process_numa_maps(pid, name) on the outcome of read_to_string on
\* /proc/<pid>/numa_maps
get_process_numa_maps(pid, read_to_string) ==
    IF read_to_string.ok THEN Ok(parse_numa_maps(read_to_string.value, pid)) ELSE Err
\* the pids of the per-process swap lists of the model
MaxProcs == 22
\* what get_process_numa_maps can return for each pid: /proc/<pid>/numa_maps
\* cannot be read, or holds 5 pages on node 0 and 1 page on node 2
ProviderNumaInfos ==
    [pid \in 1..MaxProcs |->
        {get_process_numa_maps(pid, read_to_string) :
            read_to_string \in
                {Err, Ok(<<"N", "0", "=", "5", " ", "N", "2", "=", "1", "\n">>)}}]
\* How long each provider method and terminal.draw take in one pass of run,
\* in milliseconds, and the answers the provider can give in that pass.
NoCalls == [get_swap_info |-> 0, get_processes_swap |-> 0, get_numa_topology |-> 0,
            get_process_numa_maps |-> 0, get_gpu_devices |-> 0, get_gpu_processes |-> 0]
NoDelay == [method \in (DOMAIN NoCalls) \cup {"draw"} |-> 0]
Provider(took) ==
    LET \* get_processes_swap(unit)
        processes_swap(unit) ==
            {get_processes_using_swap(all_processes, unit) : all_processes \in ProviderProcs}
        \* the per-process swap list read by the distribution refresh, with the
        \* outcome of reading the page map of each of its processes
        numa_maps(unit) ==
            UNION {{[swap |-> swap, maps |-> f] :
                       f \in {g \in [(IF swap.ok THEN PidsOf(swap.value) ELSE {}) ->
                                        UNION {ProviderNumaInfos[pid] : pid \in 1..MaxProcs}] :
                                 \A pid \in DOMAIN g : g[pid] \in ProviderNumaInfos[pid]}} :
                   swap \in processes_swap(unit)}
    IN  [swap_info |-> {Err, Ok(<< >>)},
         processes_swap |-> [unit \in {"KB", "MB", "GB"} |-> processes_swap(unit)],
         topology |-> {Err} \cup {Ok(v) : v \in ProviderTopologies},
         numa_maps |-> [unit \in {"KB", "MB", "GB"} |-> numa_maps(unit)],
         devices |-> {Err, Ok(<<[index |-> 0, name |-> "gpu0", numa_node_id |-> Some(2)]>>)},
         processes |-> {Err, Ok(<<[pid |-> 2, name |-> "c", gpu_index |-> 0,
                                   gpu_memory_used_kb |-> 4096]>>)},
         took |-> took]
\* the provider whose calls take no time, and terminal.draw with them
ProviderNoDelay == Provider(NoDelay)
\* the provider on a host where no read fails
Reliable(took) ==
    LET p == Provider(took)
    IN  [p EXCEPT !.swap_info = {a \in @ : a.ok},
                  !.processes_swap = [unit \in DOMAIN @ |-> {a \in p.processes_swap[unit] : a.ok}],
                  !.topology = {a \in @ : a.ok},
                  !.numa_maps = [unit \in DOMAIN @ |->
                                    {a \in p.numa_maps[unit] :
                                        a.swap.ok /\ \A pid \in DOMAIN a.maps : a.maps[pid].ok}],
                  !.devices = {a \in @ : a.ok},
                  !.processes = {a \in @ : a.ok}]

VARIABLES
    \* arguments and result of one call of merge_process_data
    m_swap_procs, m_gpu_procs, m_numa_infos, m_numa_nodes, m_result, m_called,
    \* position in App::run: "start", "loop", "done" (returned Ok), "failed"
    \* (returned the Err of get_swap_info), "failed_terminal" (returned the Err
    \* of event::poll, event::read or terminal.draw)
    pc,
    \* fields of App
    running, active_view, sort_column, swap_size_unit, timeout, last_update,
    numa_nodes, process_numa_infos, gpu_devices, gpu_processes, unified_procs,
    numa_topology_last, numa_maps_last, gpu_devices_last, gpu_processes_last,
    \* the provider's is_numa_available() and is_gpu_available()
    numa_available, gpu_available,
    \* what the last step did: the milliseconds its poll waited, refresh methods
    \* invoked, classes whose fetch was attempted, classes whose fetch failed,
    \* provider calls per method
    waited, invoked, attempted, failed, calls,
    \* arguments and result of one call of a function taken on its own
    call_args, call_result, call_done

mvars == <<m_swap_procs, m_gpu_procs, m_numa_infos, m_numa_nodes, m_result, m_called>>
avars == <<pc, running, active_view, sort_column, swap_size_unit, timeout, last_update,
           numa_nodes, process_numa_infos, gpu_devices, gpu_processes, unified_procs,
           numa_topology_last, numa_maps_last, gpu_devices_last, gpu_processes_last,
           numa_available, gpu_available, waited, invoked, attempted, failed, calls>>
cvars == <<call_args, call_result, call_done>>
vars == <<mvars, avars, cvars>>

\* The current state as one record, and its assignment to the next state.
Cur ==
    [pc |-> pc, running |-> running, active_view |-> active_view,
     sort_column |-> sort_column, swap_size_unit |-> swap_size_unit,
     timeout |-> timeout, last_update |-> last_update,
     numa_nodes |-> numa_nodes, process_numa_infos |-> process_numa_infos,
     gpu_devices |-> gpu_devices, gpu_processes |-> gpu_processes,
     unified_procs |-> unified_procs,
     numa_topology_last |-> numa_topology_last, numa_maps_last |-> numa_maps_last,
     gpu_devices_last |-> gpu_devices_last, gpu_processes_last |-> gpu_processes_last,
     numa_available |-> numa_available, gpu_available |-> gpu_available,
     waited |-> 0, invoked |-> {}, attempted |-> {}, failed |-> {}, calls |-> NoCalls]
Assign(s) ==
    /\ pc' = s.pc /\ running' = s.running /\ active_view' = s.active_view
    /\ sort_column' = s.sort_column /\ swap_size_unit' = s.swap_size_unit
    /\ timeout' = s.timeout /\ last_update' = s.last_update
    /\ numa_nodes' = s.numa_nodes /\ process_numa_infos' = s.process_numa_infos
    /\ gpu_devices' = s.gpu_devices /\ gpu_processes' = s.gpu_processes
    /\ unified_procs' = s.unified_procs
    /\ numa_topology_last' = s.numa_topology_last /\ numa_maps_last' = s.numa_maps_last
    /\ gpu_devices_last' = s.gpu_devices_last /\ gpu_processes_last' = s.gpu_processes_last
    /\ numa_available' = s.numa_available /\ gpu_available' = s.gpu_available
    /\ waited' = s.waited /\ invoked' = s.invoked /\ attempted' = s.attempted /\ failed' = s.failed
    /\ calls' = s.calls

\* d milliseconds pass: every recorded Instant is d older.  An age stops
\* growing at the value from which every comparison it feeds is decided.
elapse(s, d) ==
    LET older(last, cap) ==
            IF last = None THEN None
            ELSE Some(IF last[1] + d < cap THEN last[1] + d ELSE cap)
    IN  [s EXCEPT !.last_update = older(@, TIMEOUT_MAX),
                  !.numa_topology_last = older(@, from_secs(NUMA_TOPOLOGY_TTL)),
                  !.numa_maps_last = older(@, from_secs(NUMA_MAPS_TTL)),
                  !.gpu_devices_last = older(@, from_secs(GPU_DEVICES_TTL)),
                  !.gpu_processes_last = older(@, from_secs(GPU_PROCESSES_TTL))]
\* one call of a provider method: it takes its time and is counted
call(s, method, took) ==
    [elapse(s, took[method]) EXCEPT !.calls[method] = @ + 1]

(***************************************************************************)
(* The TTL pattern shared by the cached classes.                           *)
(***************************************************************************)
\* last.map(|t| t.elapsed() >= TTL).unwrap_or(true)
should_refresh_after(last, ttl) ==
    IF last = None THEN TRUE ELSE elapsed(last[1]) > from_secs(ttl)
should_refresh(last, ttl) ==
    IF last = None THEN TRUE ELSE elapsed(last[1]) >= from_secs(ttl)
\* if let Ok(v) = fetch { self.cache = v }
store(result, cache) == IF result.ok THEN result.value ELSE cache
\* self.<class>_last = Some(Instant::now()), after the fetch whatever it returned
record_refresh_on_ok(result, last) == IF result.ok THEN Some(InstantNow) ELSE last
record_refresh(result, last) == Some(InstantNow)
\* bookkeeping of the answer to one call of the fetch of a class
note(s, class, ok) ==
    [s EXCEPT !.attempted = @ \cup {class},
              !.failed = IF ok THEN @ ELSE @ \cup {class}]

(***************************************************************************)
(* refresh_numa_data: the states it can leave, by the provider's answers.  *)
(***************************************************************************)
\* procs.sort_by(|a, b| b.swap_size.partial_cmp(&a.swap_size)...)
sort_by_swap_desc(procs) ==
    sort_by(procs, [i \in 1..Len(procs) |-> 0 - procs[i].swap_size])
take_all(s, n) == s
take(s, n) == IF Len(s) <= n THEN s ELSE SubSeq(s, 1, n)
\* the block under `if should_refresh_maps`, on the answer a of the provider
refresh_numa_maps(s, a, took) ==
    LET procs == IF a.swap.ok
                 THEN take(sort_by_swap_desc(a.swap.value), NUMA_MAPS_TOP)
                 ELSE << >>
        \* for proc in procs.iter().take(20) { if let Ok(info) = .. { infos.push(info) } }
        RECURSIVE for_proc(_, _, _)
        for_proc(t, infos, i) ==
            IF i > Len(procs) THEN [t EXCEPT !.process_numa_infos = infos]
            ELSE LET info == a.maps[procs[i].pid]
                 IN  for_proc(note(call(t, "get_process_numa_maps", took),
                                   "maps", info.ok),
                              IF info.ok THEN Append(infos, info.value) ELSE infos,
                              i + 1)
        done == for_proc(note(call(s, "get_processes_swap", took), "maps", a.swap.ok),
                         << >>, 1)
    IN  [done EXCEPT !.numa_maps_last =
                         record_refresh([ok |-> "maps" \notin done.failed], @)]

refresh_numa_data(s, p) ==
    LET s0 == [s EXCEPT !.invoked = @ \cup {"refresh_numa_data"}]
        topology_done ==
            IF should_refresh(s0.numa_topology_last, NUMA_TOPOLOGY_TTL)
            THEN {[note(call(s0, "get_numa_topology", p.took), "topology", a.ok) EXCEPT
                       !.numa_nodes = store(a, @),
                       !.numa_topology_last = record_refresh(a, @)] : a \in p.topology}
            ELSE {s0}
        maps_done(s1) ==
            IF s1.active_view # "Numa" THEN {s1}
            ELSE IF should_refresh(s1.numa_maps_last, NUMA_MAPS_TTL)
                 THEN {refresh_numa_maps(s1, a, p.took) :
                          a \in p.numa_maps[s1.swap_size_unit]}
                 ELSE {s1}
    IN  IF ~s.numa_available THEN {s0}
        ELSE UNION {maps_done(s1) : s1 \in topology_done}

(***************************************************************************)
(* refresh_gpu_data                                                        *)
(***************************************************************************)
refresh_gpu_data(s, p) ==
    LET s0 == [s EXCEPT !.invoked = @ \cup {"refresh_gpu_data"}]
        devices_done ==
            IF should_refresh(s0.gpu_devices_last, GPU_DEVICES_TTL)
            THEN {[note(call(s0, "get_gpu_devices", p.took), "devices", a.ok) EXCEPT
                       !.gpu_devices = store(a, @),
                       !.gpu_devices_last = record_refresh(a, @)] : a \in p.devices}
            ELSE {s0}
        processes_done(s1) ==
            IF should_refresh(s1.gpu_processes_last, GPU_PROCESSES_TTL)
            THEN {[note(call(s1, "get_gpu_processes", p.took), "processes", a.ok) EXCEPT
                       !.gpu_processes = store(a, @),
                       !.gpu_processes_last = record_refresh(a, @)] : a \in p.processes}
            ELSE {s1}
    IN  IF ~s.gpu_available THEN {s0}
        ELSE UNION {processes_done(s1) : s1 \in devices_done}

(***************************************************************************)
(* refresh_unified_data and sort_unified_procs                             *)
(***************************************************************************)
\* a.name.cmp(&b.name) on the names of the model
name_rank(name) ==
    LET NameOrder == <<"a", "b", "c", "unknown">>
    IN  CHOOSE i \in 1..Len(NameOrder) : NameOrder[i] = name
\* Option<u32>::cmp: None before every Some
option_rank(o) == IF o = None THEN 0 ELSE o[1] + 1
sort_key_total(col, p) ==
    CASE col = "Swap" -> 0 - (p.swap_kb + unwrap_or(p.gpu_memory_kb, 0))
      [] col = "GpuMem" -> 0 - unwrap_or(p.gpu_memory_kb, 0)
      [] col = "Name" -> name_rank(p.name)
      [] col = "NumaNode" -> option_rank(p.numa_node)
sort_key_absent_last(col, p) ==
    CASE col = "Swap" -> 0 - p.swap_kb
      [] col = "GpuMem" -> 0 - unwrap_or(p.gpu_memory_kb, 0)
      [] col = "Name" -> name_rank(p.name)
      [] col = "NumaNode" -> IF p.numa_node = None THEN 1000 ELSE p.numa_node[1]
sort_key(col, p) ==
    CASE col = "Swap" -> 0 - p.swap_kb
      [] col = "GpuMem" -> 0 - unwrap_or(p.gpu_memory_kb, 0)
      [] col = "Name" -> name_rank(p.name)
      [] col = "NumaNode" -> option_rank(p.numa_node)
sort_unified_procs_unstable(procs, col) ==
    LET r == [i \in 1..Len(procs) |-> procs[Len(procs) + 1 - i]]
    IN  sort_by(r, [i \in 1..Len(r) |-> sort_key(col, r[i])])
sort_unified_procs(procs, col) ==
    sort_by(procs, [i \in 1..Len(procs) |-> sort_key(col, procs[i])])
\* the states refresh_unified_data can leave
refresh_unified_data(s, p) ==
    UNION {LET \* get_processes_swap(..).unwrap_or_default()
               swap_procs == IF a.ok THEN a.value ELSE << >>
               s0 == [call(s, "get_processes_swap", p.took) EXCEPT
                          !.invoked = @ \cup {"refresh_unified_data"}]
           IN  {[s0 EXCEPT !.unified_procs = sort_unified_procs(m, s.sort_column)] :
                   m \in merge_process_data(swap_procs, s.gpu_processes,
                                            s.process_numa_infos, s.numa_nodes)} :
           a \in p.processes_swap[s.swap_size_unit]}

(***************************************************************************)
(* App::run                                                                *)
(***************************************************************************)
\* create_process_lines: one read of the per-process swap list, whose answer
\* changes only the lines drawn
create_process_lines(s, p) == call(s, "get_processes_swap", p.took)
\* run takes the App by value: when run returns, the App is dropped and only
\* the way run ended (and the flag that ended the loop) remains.
returned(s, how) ==
    [pc |-> how, running |-> s.running, active_view |-> "Swap",
     sort_column |-> "Swap", swap_size_unit |-> "KB",
     timeout |-> INITIAL_TIMEOUT, last_update |-> None,
     numa_nodes |-> << >>, process_numa_infos |-> << >>,
     gpu_devices |-> << >>, gpu_processes |-> << >>, unified_procs |-> << >>,
     numa_topology_last |-> None, numa_maps_last |-> None,
     gpu_devices_last |-> None, gpu_processes_last |-> None,
     numa_available |-> s.numa_available, gpu_available |-> s.gpu_available,
     waited |-> s.waited, invoked |-> {}, attempted |-> {}, failed |-> {},
     calls |-> s.calls]
\* self.chart_info = self.provider.get_swap_info(&self.swap_size_unit)?
\* on the answer a: the state after it, run having returned the Err
get_swap_info(s, a, took) ==
    IF a.ok THEN call(s, "get_swap_info", took)
    ELSE returned(call(s, "get_swap_info", took), "failed")

\* The prologue of run, before the loop: the states it can leave.
run_prologue(s, p) ==
    LET s1 == create_process_lines([s EXCEPT !.running = TRUE], p)
        refreshed(s2) == UNION {refresh_gpu_data(t, p) : t \in refresh_numa_data(s2, p)}
    IN  UNION {IF a.ok
               THEN {[t EXCEPT !.last_update = Some(InstantNow), !.pc = "loop"] :
                        t \in refreshed(get_swap_info(s1, a, p.took))}
               ELSE {get_swap_info(s1, a, p.took)} : a \in p.swap_info}

\* last_update.elapsed() >= Duration::from_millis(self.timeout), the timeout
\* being a number of milliseconds as a Duration of the model is
tick_due(s) ==
    s.last_update # None /\ elapsed(s.last_update[1]) >= s.timeout

\* The body of the timeout branch: the states it can leave.
tick_all_views(s, p) ==
    LET refreshed(s1) ==
            LET s2 == create_process_lines([s1 EXCEPT !.last_update = Some(InstantNow)], p)
                s4 == UNION {refresh_gpu_data(t, p) : t \in refresh_numa_data(s2, p)}
            IN  UNION {IF t.active_view = "Unified" THEN refresh_unified_data(t, p)
                       ELSE {t} : t \in s4}
    IN  UNION {IF a.ok THEN refreshed(get_swap_info(s, a, p.took))
               ELSE {get_swap_info(s, a, p.took)} : a \in p.swap_info}
tick(s, p) ==
    LET refreshed(s1) ==
            LET s2 == create_process_lines([s1 EXCEPT !.last_update = Some(InstantNow)], p)
                s3 == IF s2.active_view = "Numa" THEN refresh_numa_data(s2, p) ELSE {s2}
                s4 == UNION {IF t.active_view = "Gpu" \/ t.active_view = "Unified"
                             THEN refresh_gpu_data(t, p) ELSE {t} : t \in s3}
            IN  UNION {IF t.active_view = "Unified" THEN refresh_unified_data(t, p)
                       ELSE {t} : t \in s4}
    IN  UNION {IF a.ok THEN refreshed(get_swap_info(s, a, p.took))
               ELSE {get_swap_info(s, a, p.took)} : a \in p.swap_info}

\* cycle_view
cycle_view(v) ==
    CASE v = "Swap" -> "Numa"
      [] v = "Numa" -> "Gpu"
      [] v = "Gpu" -> "Unified"
      [] v = "Unified" -> "Swap"

\* change_unit: the list of process lines is rebuilt when get_swap_info is Ok
change_unit(s, unit, p) ==
    LET s1 == call([s EXCEPT !.swap_size_unit = unit], "get_swap_info", p.took)
    IN  {IF a.ok THEN create_process_lines(s1, p) ELSE s1 : a \in p.swap_info}
\* cycle_theme: the list of process lines is rebuilt in the new theme
cycle_theme(s, p) == create_process_lines(s, p)

change_timout_unclamped(s, action) ==
    CASE action = "Left" ->
            [s EXCEPT !.timeout = IF @ >= TIMEOUT_STEP THEN @ - TIMEOUT_STEP ELSE 0]
      [] action = "Right" ->
            [s EXCEPT !.timeout = IF @ + TIMEOUT_STEP <= TIMEOUT_MAX
                                  THEN @ + TIMEOUT_STEP ELSE TIMEOUT_MAX]
change_timout(s, action) ==
    CASE action = "Left" ->
            LET sub == IF s.timeout >= TIMEOUT_STEP THEN s.timeout - TIMEOUT_STEP ELSE 0
            IN  [s EXCEPT !.timeout = IF sub >= TIMEOUT_MIN THEN sub ELSE TIMEOUT_MIN]
      [] action = "Right" ->
            [s EXCEPT !.timeout = IF @ + TIMEOUT_STEP <= TIMEOUT_MAX
                                  THEN @ + TIMEOUT_STEP ELSE TIMEOUT_MAX]
\* SortColumn::next
next(col) ==
    CASE col = "Swap" -> "GpuMem"
      [] col = "GpuMem" -> "NumaNode"
      [] col = "NumaNode" -> "Name"
      [] col = "Name" -> "Swap"
\* KeyCode of a key press, "Ctrl-c" being Char('c') with the CONTROL modifier
\* and "other" any key code without an arm of its own
Keys == {"Esc", "q", "Ctrl-c", "Tab", "1", "2", "3", "4", "d", "Down", "u", "Up",
         "End", "Home", "PageDown", "PageUp", "k", "m", "g", "a", "t", "s", "h",
         "Left", "Right", "other"}
\* on_key_event: the states it can leave.  The arms of d, u, a, h and of the
\* scroll keys change fields the model does not hold (vertical_scroll,
\* aggregated, display_devices), as `_ => {}` changes none.
on_key_event(s, key, p) ==
    CASE key \in {"Esc", "q", "Ctrl-c"} -> {[s EXCEPT !.running = FALSE]}
      [] key = "Tab" -> {[s EXCEPT !.active_view = cycle_view(@)]}
      [] key = "1" -> {[s EXCEPT !.active_view = "Swap"]}
      [] key = "2" -> {[s EXCEPT !.active_view = "Numa"]}
      [] key = "3" -> {[s EXCEPT !.active_view = "Gpu"]}
      [] key = "4" -> {[s EXCEPT !.active_view = "Unified"]}
      [] key = "k" -> change_unit(s, "KB", p)
      [] key = "m" -> change_unit(s, "MB", p)
      [] key = "g" -> change_unit(s, "GB", p)
      [] key = "t" -> {cycle_theme(s, p)}
      [] key = "s" -> {[s EXCEPT !.sort_column = next(@)]}
      [] key \in {"Left", "Right"} -> {change_timout(s, key)}
      [] OTHER -> {s}

\* The rest of a pass of the loop after the event poll: the timeout branch
\* when it is due, terminal.draw(..)?, the test of `while self.running`.  The
\* states it can leave.
FinishPass(s, p) ==
    LET draw(t) ==
            LET drawn == elapse(t, p.took["draw"])
            IN  IF t.pc # "loop" THEN {t}
                ELSE {IF drawn.running THEN drawn ELSE returned(drawn, "done"),
                      returned(drawn, "failed_terminal")}
    IN  UNION {draw(t) : t \in IF tick_due(s) THEN tick(s, p) ELSE {s}}

AppInit ==
    /\ pc = "start"
    /\ running = FALSE
    /\ active_view = "Swap"
    /\ sort_column = "Swap"
    /\ swap_size_unit = "KB"
    /\ timeout = INITIAL_TIMEOUT
    /\ last_update = None
    /\ numa_nodes = << >> /\ process_numa_infos = << >>
    /\ gpu_devices = << >> /\ gpu_processes = << >> /\ unified_procs = << >>
    /\ numa_topology_last = None /\ numa_maps_last = None
    /\ gpu_devices_last = None /\ gpu_processes_last = None
    /\ waited = 0
    /\ invoked = {} /\ attempted = {} /\ failed = {} /\ calls = NoCalls

MergeIdle ==
    /\ m_swap_procs = << >> /\ m_gpu_procs = << >> /\ m_numa_infos = << >>
    /\ m_numa_nodes = << >> /\ m_result = << >> /\ m_called = FALSE

CallIdle == call_args = << >> /\ call_result = << >> /\ call_done = FALSE

\* App::new(provider), on a host with or without NUMA nodes and with or
\* without nvidia-smi
Init ==
    /\ AppInit
    /\ numa_available \in BOOLEAN
    /\ gpu_available \in BOOLEAN
    /\ MergeIdle
    /\ CallIdle

\* run up to the loop, with the provider p
Start(p) ==
    /\ pc = "start"
    /\ \E t \in run_prologue(Cur, p) : Assign(t)
    /\ UNCHANGED <<mvars, cvars>>

\* a pass of the loop in which event::poll reports an event after d
\* milliseconds and event::read returns a key press
KeyPress(key, p, d) ==
    /\ pc = "loop"
    /\ \E k \in on_key_event([elapse(Cur, d) EXCEPT !.waited = d], key, p) :
           \E t \in FinishPass(k, p) : Assign(t)
    /\ UNCHANGED <<mvars, cvars>>

\* a pass of the loop in which event::poll reports no event after the d =
\* POLL_TIMEOUT milliseconds of its timeout, or reports after d milliseconds
\* an event that event::read returns and that is not a key press
PollTimeout(p, d) ==
    /\ pc = "loop"
    /\ \E t \in FinishPass([elapse(Cur, d) EXCEPT !.waited = d], p) : Assign(t)
    /\ UNCHANGED <<mvars, cvars>>

\* a pass of the loop in which event::poll(..)? or event::read()? returns Err
EventFails ==
    /\ pc = "loop"
    /\ Assign(returned(Cur, "failed_terminal"))
    /\ UNCHANGED <<mvars, cvars>>

\* Passes of the loop with no key press in which the tick is not due and the
\* draw takes no time: d milliseconds pass in their polls, and nothing else
\* changes.  The pass in which the tick is due, also when it was due before
\* its poll began, is a PollTimeout or a KeyPress with the wait of its poll.
AdvanceClock(d) ==
    /\ pc = "loop"
    /\ ~tick_due(elapse(Cur, d))
    /\ Assign(elapse(Cur, d))
    /\ UNCHANGED <<mvars, cvars>>

\* The answer of is_numa_available() or is_gpu_available(), which every
\* refresh asks for again, changes: the node directory or nvidia-smi goes or
\* comes.
SourceChanges(source, answer) ==
    /\ pc = "loop"
    /\ \/ /\ source = "numa" /\ numa_available # answer
          /\ Assign([Cur EXCEPT !.numa_available = answer])
       \/ /\ source = "gpu" /\ gpu_available # answer
          /\ Assign([Cur EXCEPT !.gpu_available = answer])
    /\ UNCHANGED <<mvars, cvars>>

\* the milliseconds a call can take, the milliseconds a poll can wait and
\* the milliseconds that pass in passes without a tick
CallDurations == {0, 100}
PollWaits == {0, 1, POLL_TIMEOUT}
ClockSteps == {1, POLL_TIMEOUT, 9 * POLL_TIMEOUT}
Next ==
    \/ \E took \in [DOMAIN NoDelay -> CallDurations] :
           \/ Start(Provider(took))
           \/ \E key \in Keys, d \in PollWaits : KeyPress(key, Provider(took), d)
           \/ \E d \in PollWaits : PollTimeout(Provider(took), d)
    \/ EventFails
    \/ \E d \in ClockSteps : AdvanceClock(d)
    \/ \E source \in {"numa", "gpu"}, answer \in BOOLEAN : SourceChanges(source, answer)

Spec == Init /\ [][Next]_vars

(***************************************************************************)
(* The specifications below read a tick interval at two moments: the key   *)
(* presses are events that are there when the poll begins, and a pass      *)
(* without a key press is the one whose poll runs into its timeout and     *)
(* brings the tick.                                                        *)
(***************************************************************************)
\* the wait of the poll after which the tick is due, when the timeout of the
\* poll brings it; no wait otherwise
TickWait == IF tick_due(elapse(Cur, POLL_TIMEOUT)) THEN POLL_TIMEOUT ELSE 0

(***************************************************************************)
(* The refresh methods in the loop on every kind of host, with a provider  *)
(* whose reads can fail at every call and sources that go and come: the    *)
(* quit key and the keys of the swap view and the NUMA view, calls that    *)
(* take no time.                                                           *)
(***************************************************************************)
NextRefresh ==
    \/ Start(ProviderNoDelay)
    \/ \E key \in {"q", "1", "2"} : KeyPress(key, ProviderNoDelay, 0)
    \/ PollTimeout(ProviderNoDelay, TickWait)
    \/ EventFails
    \/ AdvanceClock(INITIAL_TIMEOUT - POLL_TIMEOUT)
    \/ \E source \in {"numa", "gpu"}, answer \in BOOLEAN : SourceChanges(source, answer)

SpecRefresh == Init /\ [][NextRefresh]_vars

(***************************************************************************)
(* The refresh methods in the loop on every kind of host, with both        *)
(* sources included, where no read fails: the same keys and clock.         *)
(***************************************************************************)
NextReliable ==
    \/ Start(Reliable(NoDelay))
    \/ \E key \in {"q", "1", "2", "3", "4"} : KeyPress(key, Reliable(NoDelay), 0)
    \/ PollTimeout(Reliable(NoDelay), TickWait)
    \/ EventFails
    \/ AdvanceClock(INITIAL_TIMEOUT - POLL_TIMEOUT)

SpecReliable == Init /\ [][NextReliable]_vars

(***************************************************************************)
(* The application on a host without NUMA nodes and without nvidia-smi,    *)
(* with the unit keys, the theme key and the aggregate key.                *)
(***************************************************************************)
InitUnits == Init /\ ~numa_available /\ ~gpu_available

NextUnits ==
    \/ Start(ProviderNoDelay)
    \/ \E key \in {"q", "1", "2", "3", "4", "k", "m", "g", "t", "a"} :
           KeyPress(key, ProviderNoDelay, 0)
    \/ PollTimeout(ProviderNoDelay, TickWait)
    \/ EventFails
    \/ AdvanceClock(INITIAL_TIMEOUT - POLL_TIMEOUT)

SpecUnits == InitUnits /\ [][NextUnits]_vars

(***************************************************************************)
(* The application on a host with nvidia-smi, with the sort key, and with  *)
(* passes in which nvidia-smi takes a second to list the accelerator       *)
(* processes.                                                              *)
(***************************************************************************)
InitSort == Init /\ ~numa_available /\ gpu_available

NextSort ==
    \/ \E took \in {NoDelay, [NoDelay EXCEPT !["get_gpu_processes"] = from_secs(1)]} :
           \/ Start(Provider(took))
           \/ \E key \in {"q", "1", "4", "s"} : KeyPress(key, Provider(took), 0)
           \/ PollTimeout(Provider(took), TickWait)
    \/ EventFails
    \/ AdvanceClock(INITIAL_TIMEOUT - POLL_TIMEOUT)
    \/ \E answer \in BOOLEAN : SourceChanges("gpu", answer)

SpecSort == InitSort /\ [][NextSort]_vars

(***************************************************************************)
(* The application on a host without NUMA nodes and without nvidia-smi,    *)
(* under whatever tick interval the keys have set: the key presses are     *)
(* events that are there when the poll begins, a quit key can also arrive  *)
(* at the end of the poll that makes the tick due, and a pass without a    *)
(* key press waits the POLL_TIMEOUT of its poll, whether or not that makes *)
(* the tick due.  Every arm of on_key_event is taken but those of the unit *)
(* keys and the sort key, which SpecUnits and SpecSort take.               *)
(***************************************************************************)
NextControl ==
    \/ Start(ProviderNoDelay)
    \/ \E key \in Keys \ {"k", "m", "g", "s"} : KeyPress(key, ProviderNoDelay, 0)
    \/ \E key \in {"q", "Esc", "Ctrl-c"} : KeyPress(key, ProviderNoDelay, TickWait)
    \/ PollTimeout(ProviderNoDelay, POLL_TIMEOUT)
    \/ EventFails

SpecControl == InitUnits /\ [][NextControl]_vars

(***************************************************************************)
(* refresh_numa_data on per-process swap lists longer than NUMA_MAPS_TOP.  *)
(***************************************************************************)
\* what the provider answers to the calls of one distribution refresh
LongNumaMapsResults ==
    LET SwapListLens == {0, 1} \cup ((NUMA_MAPS_TOP - 1)..MaxProcs)
        \* the kibibytes in swap of process pid in a list of n processes
        profile_kb(profile, pid, n) ==
            CASE profile = "rising" -> 4 * pid
              [] profile = "falling" -> 4 * (n + 1 - pid)
              [] profile = "level" -> 4
        \* /proc with n processes in swap, the stat of the last unreadable
        all_processes(profile, n) ==
            Ok([pid \in 1..n |->
                   Ok([pid |-> pid,
                       status |-> Ok([vmswap |-> Some(profile_kb(profile, pid, n))]),
                       stat |-> IF pid = MaxProcs THEN Err ELSE Ok([comm |-> "a"])])])
        \* the pids whose numa_maps file may be unreadable
        UnreadablePids == {1, 2, MaxProcs - 1, MaxProcs}
    IN  {[swap |-> Err, maps |-> << >>]} \cup
        {[swap |-> get_processes_using_swap(all_processes(profile, n), "KB"),
          maps |-> [pid \in 1..n |-> IF pid \in unreadable THEN Err
                                     ELSE CHOOSE info \in ProviderNumaInfos[pid] : info.ok]] :
            profile \in {"rising", "falling", "level"}, n \in SwapListLens,
            unreadable \in SUBSET UnreadablePids}
\* the App in the loop on a host with NUMA nodes and without nvidia-smi, one
\* second after the prologue read the topology, before the distribution
\* class was ever fetched; the view is left open
InLoopAfterPrologue ==
    /\ pc = "loop"
    /\ running = TRUE
    /\ sort_column = "Swap"
    /\ swap_size_unit = "KB"
    /\ timeout = INITIAL_TIMEOUT
    /\ last_update = Some(from_secs(1))
    /\ numa_nodes \in ProviderTopologies /\ process_numa_infos = << >>
    /\ gpu_devices = << >> /\ gpu_processes = << >> /\ unified_procs = << >>
    /\ numa_topology_last = Some(from_secs(1)) /\ numa_maps_last = None
    /\ gpu_devices_last = None /\ gpu_processes_last = None
    /\ waited = 0
    /\ invoked = {} /\ attempted = {} /\ failed = {} /\ calls = NoCalls
    /\ numa_available = TRUE /\ gpu_available = FALSE
    /\ MergeIdle
\* that App in any view
InitLongList ==
    /\ InLoopAfterPrologue
    /\ active_view \in ActiveViews
    /\ call_args \in LongNumaMapsResults
    /\ call_result = << >>
    /\ call_done = FALSE

\* refresh_numa_data() with a provider that answers call_args
CallRefreshNuma ==
    /\ ~call_done
    /\ \E t \in refresh_numa_data(
                    Cur, [Provider(NoDelay) EXCEPT
                              !.numa_maps = [unit \in DOMAIN @ |-> {call_args}]]) :
           Assign(t)
    /\ call_done' = TRUE
    /\ UNCHANGED <<call_args, call_result, mvars>>

SpecLongList == InitLongList /\ [][CallRefreshNuma]_vars

(***************************************************************************)
(* merge_process_data as a function of its arguments.                      *)
(***************************************************************************)
\* The per-process swap list has one record per process (procfs yields each
\* pid once) and the distribution cache is built from it, one record per pid.
InitMerge ==
    /\ m_swap_procs \in {s \in SeqsUpTo(SwapRecs, MaxSwapLen) : DistinctPids(s)}
    /\ m_gpu_procs \in SeqsUpTo(GpuRecs, MaxGpuLen)
    /\ m_numa_infos \in {s \in SeqsUpTo(InfoRecs, MaxInfoLen) : DistinctPids(s)}
    /\ m_numa_nodes \in NodeLists
    /\ m_result = << >>
    /\ m_called = FALSE
    /\ AppInit
    /\ numa_available = FALSE /\ gpu_available = FALSE
    /\ CallIdle

CallMerge ==
    /\ ~m_called
    /\ m_result' \in merge_process_data(m_swap_procs, m_gpu_procs, m_numa_infos, m_numa_nodes)
    /\ m_called' = TRUE
    /\ UNCHANGED <<m_swap_procs, m_gpu_procs, m_numa_infos, m_numa_nodes>>
    /\ UNCHANGED <<avars, cvars>>

SpecMerge == InitMerge /\ [][CallMerge]_vars

(***************************************************************************)
(* sort_unified_procs as a function of the list and the sort column.       *)
(***************************************************************************)
MaxRankLen == 3
\* UnifiedProcessInfo
UnifiedRecs ==
    LET \* the fields the comparators read, with equal and absent values among them
        RankProfiles ==
        { [name |-> "a", swap_kb |-> 5, numa_node |-> None, gpu_memory_kb |-> None,
           gpu_index |-> None, location |-> "CpuOnly"],
          [name |-> "b", swap_kb |-> 0, numa_node |-> Some(0), gpu_memory_kb |-> Some(0),
           gpu_index |-> Some(0), location |-> "GpuOnly"],
          [name |-> "a", swap_kb |-> 0, numa_node |-> Some(1), gpu_memory_kb |-> Some(4),
           gpu_index |-> Some(0), location |-> "GpuOnly"],
          [name |-> "b", swap_kb |-> 5, numa_node |-> Some(0), gpu_memory_kb |-> None,
           gpu_index |-> None, location |-> "CpuOnly"] }
    IN  {[pid |-> p, name |-> f.name, swap_kb |-> f.swap_kb, numa_node |-> f.numa_node,
          gpu_memory_kb |-> f.gpu_memory_kb, gpu_index |-> f.gpu_index,
          location |-> f.location] : p \in 1..MaxRankLen, f \in RankProfiles}
\* the lists merge_process_data hands over hold one record per pid
InitRank ==
    /\ call_args \in {[procs |-> l, col |-> c] :
                         l \in {x \in SeqsUpTo(UnifiedRecs, MaxRankLen) : DistinctPids(x)},
                         c \in SortColumns}
    /\ call_result = << >>
    /\ call_done = FALSE
    /\ AppInit
    /\ numa_available = FALSE /\ gpu_available = FALSE
    /\ MergeIdle

CallRank ==
    /\ ~call_done
    /\ call_result' = sort_unified_procs(call_args.procs, call_args.col)
    /\ call_done' = TRUE
    /\ UNCHANGED <<call_args, mvars, avars>>

SpecRank == InitRank /\ [][CallRank]_vars

(***************************************************************************)
(* The correlation followed by the ranking, as refresh_unified_data runs   *)
(* them, as a function of the record lists and the sort column.            *)
(***************************************************************************)
MaxScenarioLen == 2
InitUnified ==
    /\ call_args \in
           LET \* swap 100 and 5000, as f64
               ScenarioSwapRecs ==
                   { [pid |-> 1, name |-> "a", swap_size |-> 100 * F64Scale],
                     [pid |-> 2, name |-> "b", swap_size |-> 5000 * F64Scale] }
               ScenarioGpuRecs ==
                   { [pid |-> 3, name |-> "c", gpu_index |-> 0, gpu_memory_used_kb |-> 10000],
                     [pid |-> 2, name |-> "b", gpu_index |-> 0, gpu_memory_used_kb |-> 200] }
           IN  {[swap_procs |-> sw, gpu_procs |-> g, col |-> c] :
                   sw \in {x \in SeqsUpTo(ScenarioSwapRecs, MaxScenarioLen) : DistinctPids(x)},
                   g \in {x \in SeqsUpTo(ScenarioGpuRecs, MaxScenarioLen) : DistinctPids(x)},
                   c \in SortColumns}
    /\ call_result = << >>
    /\ call_done = FALSE
    /\ AppInit
    /\ numa_available = FALSE /\ gpu_available = FALSE
    /\ MergeIdle

\* merge_process_data(..) and sort_unified_procs() without topology data
CallUnified ==
    /\ ~call_done
    /\ call_result' \in
           {sort_unified_procs(m, call_args.col) :
               m \in merge_process_data(call_args.swap_procs, call_args.gpu_procs,
                                        << >>, << >>)}
    /\ call_done' = TRUE
    /\ UNCHANGED <<call_args, mvars, avars>>

SpecUnified == InitUnified /\ [][CallUnified]_vars

\* merge_process_data(..) and sort_unified_procs() on every input of the
\* correlation, with the sort column in call_args
InitCorrelate ==
    /\ m_swap_procs \in {s \in SeqsUpTo(SwapRecs, MaxSwapLen) : DistinctPids(s)}
    /\ m_gpu_procs \in SeqsUpTo(GpuRecs, MaxGpuLen)
    /\ m_numa_infos \in {s \in SeqsUpTo(InfoRecs, MaxInfoLen) : DistinctPids(s)}
    /\ m_numa_nodes \in NodeLists
    /\ m_result = << >>
    /\ m_called = FALSE
    /\ AppInit
    /\ numa_available = FALSE /\ gpu_available = FALSE
    /\ call_args \in SortColumns
    /\ call_result = << >>
    /\ call_done = FALSE

CallCorrelate ==
    /\ ~m_called
    /\ m_result' \in
           {sort_unified_procs(m, call_args) :
               m \in merge_process_data(m_swap_procs, m_gpu_procs, m_numa_infos, m_numa_nodes)}
    /\ m_called' = TRUE
    /\ UNCHANGED <<m_swap_procs, m_gpu_procs, m_numa_infos, m_numa_nodes>>
    /\ UNCHANGED <<avars, cvars>>

SpecCorrelate == InitCorrelate /\ [][CallCorrelate]_vars

(***************************************************************************)
(* parse_cpulist as a function of the content of a cpulist file.           *)
(***************************************************************************)
MaxStrLen == 4
InitCpulist ==
    /\ call_args \in SeqsUpTo({"0", "1", "3", "-", ",", " ", "\r", "+", " ", "\\u{2003}"}, MaxStrLen)
    /\ call_result = << >>
    /\ call_done = FALSE
    /\ AppInit
    /\ numa_available = FALSE /\ gpu_available = FALSE
    /\ MergeIdle

CallCpulist ==
    /\ ~call_done
    /\ call_result' = parse_cpulist(call_args)
    /\ call_done' = TRUE
    /\ UNCHANGED <<call_args, mvars, avars>>

SpecCpulist == InitCpulist /\ [][CallCpulist]_vars

(***************************************************************************)
(* discover_numa_topology and classify_numa_node as functions of the node  *)
(* directory and the map, and the topology cache after the prologue of run *)
(* read the topology they return.                                          *)
(***************************************************************************)
MaxNodes == 2
\* the outcomes of read_dir on the node directory: Err, or its entries, with
\* distinct file names.  An entry is Err, or has its file name (node<id>, a
\* name that is no node, a node name without an id) and the outcome of
\* reading its cpulist file (unreadable, no CPU, CPUs 0 and 1).
SysfsDirs ==
    LET entries ==
            {Err} \cup
            {Ok([file_name |-> n, cpulist |-> c]) :
                n \in {<<"n", "o", "d", "e", "0">>, <<"n", "o", "d", "e", "1">>,
                       <<"n", "o", "d", "e", "2">>, <<"p", "o", "w", "e", "r">>,
                       <<"n", "o", "d", "e", "s">>},
                c \in {Err, Ok(<<"\n">>), Ok(<<"0", "-", "1", "\n">>)}}
    IN  {Err} \cup
        {Ok(x) : x \in {y \in SeqsUpTo(entries, MaxNodes) :
                           \A i, j \in 1..Len(y) :
                               (i # j /\ y[i].ok /\ y[j].ok) =>
                                   y[i].value.file_name # y[j].value.file_name}}
\* the gpu_map argument: a HashMap<u32, u32>
GpuMaps == UNION {[K -> 0..1] : K \in SUBSET (0..MaxNodes)}
\* App::new on a host with NUMA nodes, whose provider reads the topology
\* with discover_numa_topology on the directory and the map of call_args
InitClassify ==
    /\ AppInit
    /\ numa_available = TRUE /\ gpu_available \in BOOLEAN
    /\ MergeIdle
    /\ call_args \in {[read_dir |-> d, gpu_map |-> g] : d \in SysfsDirs, g \in GpuMaps}
    /\ call_result = << >>
    /\ call_done = FALSE

\* run up to the loop: call_result is what discover_numa_topology returned to
\* get_numa_topology at the refresh of the prologue
CallClassify ==
    /\ ~call_done
    /\ pc = "start"
    /\ LET topology == discover_numa_topology(call_args.read_dir, call_args.gpu_map)
       IN  /\ \E t \in run_prologue(Cur, [Provider(NoDelay) EXCEPT !.topology = {topology}]) :
                  Assign(t)
           /\ call_result' = topology
    /\ call_done' = TRUE
    /\ UNCHANGED <<call_args, mvars>>

SpecClassify == InitClassify /\ [][CallClassify]_vars

(***************************************************************************)
(* parse_numa_maps as a function of the text of a numa_maps file, and the  *)
(* distribution cache after refresh_numa_data read the file.               *)
(***************************************************************************)
MaxLines == 2
MaxTokens == 2
\* the tokens of the numa_maps texts of the model, with the node and the
\* pages an N<id>=<pages> token names
NumaTokens ==
    { [text |-> <<"N", "0", "=", "1">>, counts |-> Some(<<0, 1>>)],
      [text |-> <<"N", "0", "=", "2">>, counts |-> Some(<<0, 2>>)],
      [text |-> <<"N", "1", "=", "3">>, counts |-> Some(<<1, 3>>)],
      [text |-> <<"a", "n", "o", "n", "=", "4">>, counts |-> None],
      [text |-> <<"N", "1", "=", "x">>, counts |-> None] }
\* the chars of a text: the tokens of a line separated by one whitespace
\* char, every line ended by a line feed or by a carriage return and a line
\* feed
numa_maps_text(text) ==
    LET RECURSIVE line_text(_, _)
        line_text(tokens, i) ==
            IF i > Len(tokens) THEN << >>
            ELSE (IF i > 1 THEN <<text.sep>> ELSE << >>) \o tokens[i].text
                     \o line_text(tokens, i + 1)
        RECURSIVE text_from(_)
        text_from(i) ==
            IF i > Len(text.ls) THEN << >>
            ELSE line_text(text.ls[i], 1) \o text.eol \o text_from(i + 1)
    IN  text_from(1)
\* the App in the NUMA view of the loop, one second after the prologue read
\* the topology, before the distribution class was ever fetched
InitNumaMaps ==
    /\ InLoopAfterPrologue
    /\ active_view = "Numa"
    /\ call_args \in {[ls |-> ls, sep |-> sep, eol |-> eol] :
                         ls \in SeqsUpTo(SeqsUpTo(NumaTokens, MaxTokens), MaxLines),
                         sep \in {" ", "\t", "\r", "\f", "", "", " ", "\\u{3000}"},
                         eol \in {<<"\n">>, <<"\r", "\n">>}}
    /\ call_result = << >>
    /\ call_done = FALSE

\* refresh_numa_data() with a provider that lists process 1 alone in swap
\* and reads the text of call_args from /proc/1/numa_maps: call_result is
\* what get_process_numa_maps returned
CallNumaMaps ==
    /\ ~call_done
    /\ LET content == numa_maps_text(call_args)
           all_processes == Ok(<<Ok([pid |-> 1, status |-> Ok([vmswap |-> Some(4)]),
                                     stat |-> Ok([comm |-> "a"])])>>)
           answer == [swap |-> get_processes_using_swap(all_processes, "KB"),
                      maps |-> [pid \in {1} |-> get_process_numa_maps(pid, Ok(content))]]
       IN  /\ \E t \in refresh_numa_data(
                           Cur, [Provider(NoDelay) EXCEPT
                                     !.numa_maps = [unit \in DOMAIN @ |-> {answer}]]) :
                  Assign(t)
           /\ call_result' = get_process_numa_maps(1, Ok(content))
    /\ call_done' = TRUE
    /\ UNCHANGED <<call_args, mvars>>

SpecNumaMaps == InitNumaMaps /\ [][CallNumaMaps]_vars

(***************************************************************************)
(* The nvidia-smi CSV parsers (data/gpu.rs).                               *)
(***************************************************************************)
mib_to_kb(mib) == mib * 1024
contains(str, pat) ==
    \E i \in 1..(Len(str) + 1) :
        i + Len(pat) - 1 <= Len(str) /\ SubSeq(str, i, i + Len(pat) - 1) = pat
\* str::split(", "): the parts between the occurrences of a separator string
split_str(str, sep) ==
    LET RECURSIVE from(_, _, _)
        from(i, cur, parts) ==
            IF i > Len(str) THEN Append(parts, cur)
            ELSE IF i + Len(sep) - 1 <= Len(str) /\ SubSeq(str, i, i + Len(sep) - 1) = sep
                 THEN from(i + Len(sep), << >>, Append(parts, cur))
                 ELSE from(i + 1, Append(cur, str[i]), parts)
    IN  from(1, << >>, << >>)
\* str::replace(" MiB", ""): every occurrence of the pattern removed
remove(str, pat) ==
    LET RECURSIVE from(_)
        from(i) ==
            IF i > Len(str) THEN << >>
            ELSE IF i + Len(pat) - 1 <= Len(str) /\ SubSeq(str, i, i + Len(pat) - 1) = pat
                 THEN from(i + Len(pat))
                 ELSE <<str[i]>> \o from(i + 1)
    IN  from(1)
parse_mib_field(str) ==
    unwrap_or(parse_u64(remove(trim(str), <<" ", "M", "i", "B">>)), 0)
\* the body of the loop of parse_gpu_processes_csv
parse_gpu_process_line(results, untrimmed) ==
    LET line == trim(untrimmed)
        parts == split_str(line, <<",", " ">>)
        gpu_index == parse_u32(trim(parts[1]))
        pid == parse_u32(trim(parts[2]))
        mem_mib == parse_u64(remove(trim(parts[4]), <<" ", "M", "i", "B">>))
    IN  IF \/ line = << >>
           \/ starts_with(line, <<"g", "p", "u">>)
           \/ starts_with(line, <<"#">>)
           \/ contains(line, <<"[", "N", "o", "t", " ", "S", "u", "p", "p", "o", "r", "t", "e", "d", "]">>)
           \/ starts_with(line, <<"i", "n", "d", "e", "x">>)
        THEN results
        ELSE IF Len(parts) < 4 THEN results
        ELSE IF gpu_index = None THEN results
        ELSE IF pid = None THEN results
        ELSE IF mem_mib = None THEN results
        ELSE Append(results, [pid |-> pid[1], name |-> trim(parts[3]),
                              gpu_index |-> gpu_index[1],
                              gpu_memory_used_kb |-> mib_to_kb(mem_mib[1])])
parse_gpu_processes_csv(csv) ==
    LET RECURSIVE lines_from(_, _, _)
        lines_from(results, ls, i) ==
            IF i > Len(ls) THEN results
            ELSE lines_from(parse_gpu_process_line(results, ls[i]), ls, i + 1)
    IN  lines_from(<< >>, lines(csv), 1)
\* the body of the loop of parse_gpu_devices_csv
parse_gpu_device_line(results, untrimmed) ==
    LET line == trim(untrimmed)
        parts == split_str(line, <<",", " ">>)
        index == parse_u32(trim(parts[1]))
    IN  IF \/ line = << >>
           \/ starts_with(line, <<"i", "n", "d", "e", "x">>)
           \/ starts_with(line, <<"#">>)
           \/ starts_with(line, <<"n", "a", "m", "e">>)
        THEN results
        ELSE IF Len(parts) < 7 THEN results
        ELSE IF index = None THEN results
        ELSE Append(results, [index |-> index[1], name |-> trim(parts[2]),
                              memory_total_kb |-> mib_to_kb(parse_mib_field(parts[3])),
                              memory_used_kb |-> mib_to_kb(parse_mib_field(parts[4])),
                              memory_free_kb |-> mib_to_kb(parse_mib_field(parts[5])),
                              numa_node_id |-> None,
                              temperature |-> parse_u32(trim(parts[6])),
                              pci_bus_id |-> trim(parts[7])])
parse_gpu_devices_csv(csv) ==
    LET RECURSIVE lines_from(_, _, _)
        lines_from(results, ls, i) ==
            IF i > Len(ls) THEN results
            ELSE lines_from(parse_gpu_device_line(results, ls[i]), ls, i + 1)
    IN  lines_from(<< >>, lines(csv), 1)

MaxCsvLines == 2
\* the fields of the CSV texts of the model, with the integer a field holds
CsvField ==
    [zero |-> [text |-> <<"0">>, num |-> Some(0)],
     one |-> [text |-> <<"1">>, num |-> Some(1)],
     mib |-> [text |-> <<"4", " ", "M", "i", "B">>, num |-> Some(4)],
     na |-> [text |-> <<"[", "N", "/", "A", "]">>, num |-> None],
     bad |-> [text |-> <<"x">>, num |-> None],
     name |-> [text |-> <<"g">>, num |-> None],
     index_header |-> [text |-> <<"i", "n", "d", "e", "x">>, num |-> None],
     gpu_header |-> [text |-> <<"g", "p", "u", "_", "i", "d">>, num |-> None],
     comment |-> [text |-> <<"#">>, num |-> None]]
GpuProcessCsvLines ==
    LET f == CsvField IN
    { <<i, p, f.name, mem>> :
        i \in {f.zero, f.bad}, p \in {f.one, f.bad}, mem \in {f.mib, f.na} }
    \cup { << >>, <<f.zero, f.one, f.name>>,
           <<f.gpu_header, f.name, f.name, f.name>>, <<f.comment>> }
GpuDeviceCsvLines ==
    LET f == CsvField IN
    { <<i, f.name, total, f.mib, free, temp, f.name>> :
        i \in {f.zero, f.bad}, total \in {f.mib, f.na},
        free \in {f.mib, f.bad}, temp \in {f.one, f.na} }
    \cup { << >>, <<f.zero, f.name, f.mib, f.mib, f.mib, f.one>>,
           <<f.index_header, f.name, f.name, f.name, f.name, f.name, f.name>>,
           <<f.comment>> }
\* the chars of a CSV text: fields separated by ", ", lines ended by a line feed
csv_text(ls) ==
    LET RECURSIVE line_text(_, _)
        line_text(fields, i) ==
            IF i > Len(fields) THEN << >>
            ELSE (IF i > 1 THEN <<",", " ">> ELSE << >>) \o fields[i].text
                     \o line_text(fields, i + 1)
        RECURSIVE text_from(_)
        text_from(i) ==
            IF i > Len(ls) THEN << >>
            ELSE line_text(ls[i], 1) \o <<"\n">> \o text_from(i + 1)
    IN  text_from(1)
InitGpuCsv ==
    /\ call_args \in
          {[parser |-> "processes", ls |-> ls] : ls \in SeqsUpTo(GpuProcessCsvLines, MaxCsvLines)}
          \cup {[parser |-> "devices", ls |-> ls] : ls \in SeqsUpTo(GpuDeviceCsvLines, MaxCsvLines)}
    /\ call_result = << >>
    /\ call_done = FALSE
    /\ AppInit
    /\ numa_available = FALSE /\ gpu_available = FALSE
    /\ MergeIdle

CallGpuCsv ==
    /\ ~call_done
    /\ call_result' = IF call_args.parser = "processes"
                       THEN parse_gpu_processes_csv(csv_text(call_args.ls))
                       ELSE parse_gpu_devices_csv(csv_text(call_args.ls))
    /\ call_done' = TRUE
    /\ UNCHANGED <<call_args, mvars, avars>>

SpecGpuCsv == InitGpuCsv /\ [][CallGpuCsv]_vars

(***************************************************************************)
(* get_gpu_numa_mapping (data/gpu.rs) and get_numa_topology (data/mod.rs). *)
(***************************************************************************)
\* the body of the loop over the devices; sysfs gives, for a bus id, the
\* outcome of reading /sys/bus/pci/devices/<bus_id>/numa_node
gpu_numa_mapping_insert(mapping, device, sysfs) ==
    LET content == sysfs[device.pci_bus_id]
        node_id == IF content = None THEN None ELSE parse_i32(trim(content[1]))
    IN  IF node_id # None /\ node_id[1] >= 0
        THEN map_insert(mapping, device.index, node_id[1])
        ELSE mapping
get_gpu_numa_mapping(devices, sysfs) ==
    LET RECURSIVE from(_, _)
        from(mapping, i) ==
            IF i > Len(devices) THEN mapping
            ELSE from(gpu_numa_mapping_insert(mapping, devices[i], sysfs), i + 1)
    IN  from(EmptyMap, 1)
\* ProcDataProvider::get_numa_topology on the devices nvidia-smi reports (none
\* when nvidia-smi is missing or fails) and the outcome of read_dir on the
\* node directory; map_err(SwapDataError::Io) keeps Ok and Err apart
get_numa_topology(devices, sysfs, read_dir) ==
    discover_numa_topology(read_dir, get_gpu_numa_mapping(devices, sysfs))

MaxDevices == 2
InitTopology ==
    /\ call_args \in
          LET BusIds == {"a", "b"}
              DeviceRecs == [index : 0..(MaxDevices - 1), pci_bus_id : BusIds]
              DistinctDevices(s) ==
                  \A i, j \in 1..Len(s) :
                      i # j => s[i].index # s[j].index /\ s[i].pci_bus_id # s[j].pci_bus_id
              \* the numa_node file of a bus id: unreadable, no affinity, node 0, node 2
              NumaNodeFiles == {None, Some(<<"-", "1", "\n">>), Some(<<"0", "\n">>),
                                Some(<<"2", "\n">>)}
          IN  {[devices |-> d, sysfs |-> f, read_dir |-> e] :
                  d \in {x \in SeqsUpTo(DeviceRecs, MaxDevices) : DistinctDevices(x)},
                  f \in [BusIds -> NumaNodeFiles],
                  e \in SysfsDirs}
    /\ call_result = << >>
    /\ call_done = FALSE
    /\ AppInit
    /\ numa_available = FALSE /\ gpu_available = FALSE
    /\ MergeIdle

CallTopology ==
    /\ ~call_done
    /\ call_result' = get_numa_topology(call_args.devices, call_args.sysfs, call_args.read_dir)
    /\ call_done' = TRUE
    /\ UNCHANGED <<call_args, mvars, avars>>

SpecTopology == InitTopology /\ [][CallTopology]_vars

(***************************************************************************)
(* aggregate_processes (data/types.rs).                                    *)
(***************************************************************************)
\* the body of the loop: entry(name).or_insert((0.0, 0)), then both updated
aggregate_entry_first_only(name_to_info, process) ==
    LET entry == map_get_or(name_to_info, process.name, <<process.swap_size, 1>>)
    IN  map_insert(name_to_info, process.name, entry)
aggregate_entry(name_to_info, process) ==
    LET entry == map_get_or(name_to_info, process.name, <<0, 0>>)
    IN  map_insert(name_to_info, process.name,
                   <<entry[1] + process.swap_size, entry[2] + 1>>)
\* Every Vec<ProcessSwapInfo> aggregate_processes can return on this input.
aggregate_processes(processes) ==
    LET RECURSIVE entries_from(_, _)
        entries_from(acc, i) ==
            IF i > Len(processes) THEN acc
            ELSE entries_from(aggregate_entry(acc, processes[i]), i + 1)
        name_to_info == entries_from(EmptyMap, 1)
        \* into_iter().map(..).collect() in one iteration order, then the sort_by
        collect_and_sort_by(order) ==
            LET collected == [i \in 1..Len(order) |->
                                 [pid |-> name_to_info[order[i]][2], name |-> order[i],
                                  swap_size |-> name_to_info[order[i]][1]]]
            IN  sort_by(collected,
                        [i \in 1..Len(collected) |-> 0 - collected[i].swap_size])
    IN  {collect_and_sort_by(order) : order \in iteration_orders(name_to_info)}

MaxAggLen == 3
AggRecs == [pid : 1..2, name : {"a", "b", "c"}, swap_size : {1 * F64Scale, 2 * F64Scale}]
InitAggregate ==
    /\ call_args \in SeqsUpTo(AggRecs, MaxAggLen)
    /\ call_result = << >>
    /\ call_done = FALSE
    /\ AppInit
    /\ numa_available = FALSE /\ gpu_available = FALSE
    /\ MergeIdle

CallAggregate ==
    /\ ~call_done
    /\ call_result' \in aggregate_processes(call_args)
    /\ call_done' = TRUE
    /\ UNCHANGED <<call_args, mvars, avars>>

SpecAggregate == InitAggregate /\ [][CallAggregate]_vars

(***************************************************************************)
(* Properties of merge_process_data, checked under SpecMerge.              *)
(***************************************************************************)
ResultIdx == 1..Len(m_result)
SwapOf(pid) == {i \in 1..Len(m_swap_procs) : m_swap_procs[i].pid = pid}
GpuOf(pid) == {i \in 1..Len(m_gpu_procs) : m_gpu_procs[i].pid = pid}
InfoOf(pid) == {i \in 1..Len(m_numa_infos) : m_numa_infos[i].pid = pid}
\* the process has a nonzero page count on a node classified GpuHbm
OnHbm(pid) ==
    \E i \in InfoOf(pid) : \E n \in 1..Len(m_numa_nodes) :
        /\ m_numa_nodes[n].node_type.kind = "GpuHbm"
        /\ m_numa_nodes[n].id \in DOMAIN m_numa_infos[i].pages_per_node
        /\ m_numa_infos[i].pages_per_node[m_numa_nodes[n].id] > 0

\* C1 (as stated): the pids of the output are the union of the pids of the swap
\* records, the accelerator records and the distribution records.
C1_Original ==
    m_called => PidsOf(m_result) =
                    PidsOf(m_swap_procs) \cup PidsOf(m_gpu_procs) \cup PidsOf(m_numa_infos)

\* C1 (amended): the pids of the output are the union of the pids of the swap
\* records and the accelerator records; a pid that occurs only in a
\* distribution record is not emitted.
C1_Amended ==
    m_called => PidsOf(m_result) = PidsOf(m_swap_procs) \cup PidsOf(m_gpu_procs)

C1_Witness ==
    /\ m_called
    /\ m_swap_procs # << >> /\ m_gpu_procs # << >>
    /\ \E p \in PidsOf(m_numa_infos) : p \notin PidsOf(m_swap_procs) \cup PidsOf(m_gpu_procs)
    /\ Len(m_result) >= 2

\* C2: no pid occurs in two output records, and every pid of the swap records
\* and of the accelerator records occurs in the output.
C2_UniquePids ==
    m_called =>
        /\ \A i, j \in ResultIdx : i # j => m_result[i].pid # m_result[j].pid
        /\ \A p \in PidsOf(m_swap_procs) \cup PidsOf(m_gpu_procs) :
               \E i \in ResultIdx : m_result[i].pid = p

\* two swap records with one name and different pids, one of them also on two
\* devices, no distribution data
C2_Witness ==
    /\ m_called
    /\ Len(m_swap_procs) = 2 /\ m_swap_procs[1].name = m_swap_procs[2].name
    /\ Len(m_gpu_procs) = 2 /\ m_gpu_procs[1].pid = m_gpu_procs[2].pid
    /\ m_gpu_procs[1].pid \in PidsOf(m_swap_procs)
    /\ m_numa_infos = << >>
    /\ Len(m_result) = 2

\* C3: a process of the swap records without accelerator record and with a
\* nonzero page count on a GpuHbm node is emitted as CpuAndGpu, never CpuOnly.
C3_MigrationPromotion ==
    m_called =>
        \A p \in PidsOf(m_swap_procs) :
            (GpuOf(p) = {} /\ OnHbm(p)) =>
                /\ \E i \in ResultIdx : m_result[i].pid = p
                /\ \A i \in ResultIdx :
                       m_result[i].pid = p => m_result[i].location = "CpuAndGpu"

\* the promoted process has most of its pages on the CPU node
C3_Witness ==
    /\ m_called
    /\ \E i \in ResultIdx :
           /\ GpuOf(m_result[i].pid) = {} /\ SwapOf(m_result[i].pid) # {}
           /\ OnHbm(m_result[i].pid)
           /\ m_result[i].numa_node = Some(0)
           /\ m_result[i].location = "CpuAndGpu"

\* C4 (as stated): placement follows source membership: swap only (no pages on
\* accelerator memory) is CpuOnly; accelerator only, on one device or several,
\* is GpuOnly with swap_kb 0; both is one CpuAndGpu record with the swap amount
\* of the swap record and the memory and index of an accelerator record.
C4_PlacementBySource ==
    m_called =>
        \A i \in ResultIdx :
            LET r == m_result[i] IN
            /\ (SwapOf(r.pid) # {} /\ GpuOf(r.pid) = {} /\ ~OnHbm(r.pid))
                   => r.location = "CpuOnly"
            /\ (SwapOf(r.pid) = {} /\ GpuOf(r.pid) # {})
                   => (r.swap_kb = 0 /\ r.location = "GpuOnly")
            /\ (SwapOf(r.pid) # {} /\ GpuOf(r.pid) # {})
                   => /\ r.location = "CpuAndGpu"
                      /\ \A j \in ResultIdx : m_result[j].pid = r.pid => j = i
                      /\ \E s \in SwapOf(r.pid) :
                             r.swap_kb * F64Scale <= m_swap_procs[s].swap_size
                             /\ m_swap_procs[s].swap_size < (r.swap_kb + 1) * F64Scale
                      /\ \E g \in GpuOf(r.pid) :
                             /\ r.gpu_memory_kb = Some(m_gpu_procs[g].gpu_memory_used_kb)
                             /\ r.gpu_index = Some(m_gpu_procs[g].gpu_index)

\* C5: a record whose pid has no accelerator record carries no accelerator
\* memory and no device index, also after the migration promotion.
C5_NoGpuEvidence ==
    m_called =>
        \A i \in ResultIdx :
            GpuOf(m_result[i].pid) = {} =>
                (m_result[i].gpu_memory_kb = None /\ m_result[i].gpu_index = None)

C5_Witness ==
    /\ m_called
    /\ \E i \in ResultIdx :
           /\ GpuOf(m_result[i].pid) = {}
           /\ m_result[i].location = "CpuAndGpu"
           /\ m_result[i].gpu_memory_kb = None

\* C6: a swap-seeded record has no dominant node when the pid has no
\* distribution record or an empty page map; otherwise its dominant node is a
\* key of the page map whose count is at least every other count.
C6_DominantNode ==
    m_called =>
        \A i \in ResultIdx :
            LET r == m_result[i] IN
            SwapOf(r.pid) # {} =>
                IF InfoOf(r.pid) = {}
                   \/ \A k \in InfoOf(r.pid) : DOMAIN m_numa_infos[k].pages_per_node = {}
                THEN r.numa_node = None
                ELSE \E k \in InfoOf(r.pid) :
                         LET ppn == m_numa_infos[k].pages_per_node IN
                         /\ r.numa_node # None
                         /\ r.numa_node[1] \in DOMAIN ppn
                         /\ \A n \in DOMAIN ppn : ppn[n] <= ppn[r.numa_node[1]]

\* a strict maximum on node 0 next to a smaller count on node 2, and a record
\* without distribution data
C6_Witness ==
    /\ m_called
    /\ \E i \in ResultIdx :
           /\ SwapOf(m_result[i].pid) # {}
           /\ \E k \in InfoOf(m_result[i].pid) :
                  m_numa_infos[k].pages_per_node = (0 :> 5 @@ 2 :> 1)
           /\ m_result[i].numa_node = Some(0)
    /\ \E i \in ResultIdx :
           SwapOf(m_result[i].pid) # {} /\ InfoOf(m_result[i].pid) = {}
           /\ m_result[i].numa_node = None

(***************************************************************************)
(* Properties of the refresh methods.  A step reads the timestamps and     *)
(* caches a refresh method found in the unprimed variables and what it     *)
(* left in the primed ones.  C7, C10, C11 and C12 are checked under        *)
(* SpecReliable, C8, C9 and C13 under SpecRefresh, C14 under SpecSort.     *)
(***************************************************************************)
Classes == {"topology", "maps", "devices", "processes"}
BudgetOf(c) ==
    CASE c = "topology" -> NUMA_TOPOLOGY_TTL
      [] c = "maps" -> NUMA_MAPS_TTL
      [] c = "devices" -> GPU_DEVICES_TTL
      [] c = "processes" -> GPU_PROCESSES_TTL
\* the recorded refresh timestamp of a class, now and after the step
LastOf(c) ==
    CASE c = "topology" -> numa_topology_last
      [] c = "maps" -> numa_maps_last
      [] c = "devices" -> gpu_devices_last
      [] c = "processes" -> gpu_processes_last
LastOfNext(c) ==
    CASE c = "topology" -> numa_topology_last'
      [] c = "maps" -> numa_maps_last'
      [] c = "devices" -> gpu_devices_last'
      [] c = "processes" -> gpu_processes_last'
\* the cache of a class, now and after the step
CacheOf(c) ==
    CASE c = "topology" -> numa_nodes
      [] c = "maps" -> process_numa_infos
      [] c = "devices" -> gpu_devices
      [] c = "processes" -> gpu_processes
CacheOfNext(c) ==
    CASE c = "topology" -> numa_nodes'
      [] c = "maps" -> process_numa_infos'
      [] c = "devices" -> gpu_devices'
      [] c = "processes" -> gpu_processes'
\* the class has no timestamp or its budget has elapsed when the step, after
\* the wait of its poll, comes to the refresh
Due(c) == LastOf(c) = None \/ LastOf(c)[1] + waited' >= from_secs(BudgetOf(c))
\* the step called the refresh method of the class on an available source
RefreshCalled(c) ==
    IF c \in {"topology", "maps"}
    THEN "refresh_numa_data" \in invoked' /\ numa_available
    ELSE "refresh_gpu_data" \in invoked' /\ gpu_available

\* C7 (as stated): a refresh call on an available source fetches a class if
\* and only if the class has no timestamp or its budget has elapsed, for all
\* four classes; the first call always fetches.
C7_Original ==
    [][\A c \in Classes : RefreshCalled(c) => (c \in attempted' <=> Due(c))]_vars
\* C7 (amended): topology, devices and accelerator processes are fetched if
\* and only if they have no timestamp or their budget has elapsed; the
\* process distributions are fetched if and only if, in addition, the NUMA
\* view is the active view at the call.
C7_TtlGate ==
    [][\A c \in Classes :
          RefreshCalled(c) =>
              (c \in attempted' <=> (Due(c) /\ (c = "maps" => active_view' = "Numa")))]_vars
\* a refresh call that fetched the distributions and skipped the topology,
\* whose budget had not elapsed
C7_Witness ==
    /\ "refresh_numa_data" \in invoked /\ numa_available
    /\ attempted = {"maps"}
    /\ numa_topology_last # None /\ numa_topology_last # Some(InstantNow)
    /\ numa_nodes # << >>

\* C9 (as stated): for every cached class, when the fetch of a due refresh
\* fails, the cache holds after the refresh exactly the value it held before.
C9_StaleRetained ==
    [][\A c \in failed' : CacheOfNext(c) = CacheOf(c)]_vars

\* C10 (as stated): within one tick no class is fetched from the provider
\* more than once, the per-process swap list included.  The distributions
\* are one class, read with one get_process_numa_maps call for each process
\* kept, so these calls are not counted one against the other.
C10_OneFetchPerTick ==
    pc = "loop" => \A m \in DOMAIN calls \ {"get_process_numa_maps"} : calls[m] <= 1

\* a step in which the timeout branch ran and the loop went on
TickRan == pc = "loop" /\ pc' = "loop" /\ calls'.get_swap_info = 1
\* the source of the class reports available
Available(c) == IF c \in {"topology", "maps"} THEN numa_available ELSE gpu_available
\* the views whose tick calls the refresh method of the class
ViewShows(c, v) ==
    IF c \in {"topology", "maps"} THEN v = "Numa" ELSE v \in {"Gpu", "Unified"}

\* C11 (as stated): on every tick, whichever view is active, each class other
\* than the distributions whose budget has elapsed and whose source is
\* available is refreshed.
C11_Original ==
    [][TickRan => \A c \in Classes \ {"maps"} :
                      (Due(c) /\ Available(c)) => c \in attempted']_vars
\* C11 (amended): on a tick a class other than the distributions is refreshed
\* if and only if it is due, its source is available and the active view is
\* one whose tick calls its refresh method: the NUMA view for the topology,
\* the GPU or Unified view for the accelerator devices and processes.
C11_ViewGatedTick ==
    [][TickRan => \A c \in Classes \ {"maps"} :
                      c \in attempted' <=>
                          (Due(c) /\ Available(c) /\ ViewShows(c, active_view'))]_vars
\* a tick in the NUMA view that refreshed the topology again, the distributions
\* being within their budget
C11_Witness ==
    /\ pc = "loop" /\ calls.get_swap_info = 1 /\ active_view = "Numa"
    /\ attempted = {"topology"}
    /\ numa_maps_last # None

\* C12 (as stated): at every point of the run the budgets in force are strictly
\* ordered topology > process distribution > accelerator devices >
\* accelerator processes.
C12_Original ==
    pc \in {"start", "loop", "done", "failed", "failed_terminal"} =>
    /\ NUMA_TOPOLOGY_TTL > NUMA_MAPS_TTL
    /\ NUMA_MAPS_TTL > GPU_DEVICES_TTL
    /\ GPU_DEVICES_TTL > GPU_PROCESSES_TTL
\* C12 (amended): at every point of the run the budgets in force are strictly
\* ordered topology > accelerator devices > process distribution >
\* accelerator processes.
C12_BudgetOrder ==
    pc \in {"start", "loop", "done", "failed", "failed_terminal"} =>
    /\ NUMA_TOPOLOGY_TTL > GPU_DEVICES_TTL
    /\ GPU_DEVICES_TTL > NUMA_MAPS_TTL
    /\ NUMA_MAPS_TTL > GPU_PROCESSES_TTL
\* a refresh call made when the devices were fetched a distribution budget
\* ago: the devices are still within their budget and are not fetched
C12_Witness ==
    /\ gpu_available /\ "refresh_gpu_data" \in invoked
    /\ gpu_devices_last = Some(from_secs(NUMA_MAPS_TTL))
    /\ "devices" \notin attempted /\ "processes" \in attempted

\* C13 (as stated): after start-up no fetch failure ends the loop or makes run
\* return an error: from inside the loop, run never returns the Err of a
\* provider call.
C13_NoFatalFetchFailure ==
    [][pc = "loop" => pc' # "failed"]_vars

\* the step called the refresh method of the class
RefreshInvoked(c) ==
    IF c \in {"topology", "maps"}
    THEN "refresh_numa_data" \in invoked'
    ELSE "refresh_gpu_data" \in invoked'

\* C14 (as stated): when the source of a class reports unavailable at a
\* refresh, no fetch of the class is issued and the cache of the class, which
\* the correlation and the views read, is empty afterwards.
C14_UnavailableIsEmpty ==
    [][\A c \in Classes :
          (RefreshInvoked(c) /\ ~Available(c)) =>
              (c \notin attempted' /\ CacheOfNext(c) = << >>)]_vars

(***************************************************************************)
(* Properties of sort_unified_procs, checked under SpecRank.               *)
(***************************************************************************)
RankIn == call_args.procs
RankOut == call_result
\* a.name.cmp(&b.name) is Less or Equal, for the one-letter names of the model
NameLeq(a, b) ==
    \/ a = b
    \/ a = "a"
    \/ (a = "b" /\ b = "c")
\* the order the sort column asks of a record placed before another
InOrder(col, p, q) ==
    CASE col = "Swap" -> p.swap_kb >= q.swap_kb
      [] col = "GpuMem" ->
            (IF p.gpu_memory_kb = None THEN 0 ELSE p.gpu_memory_kb[1])
                >= (IF q.gpu_memory_kb = None THEN 0 ELSE q.gpu_memory_kb[1])
      [] col = "Name" -> NameLeq(p.name, q.name)
      [] col = "NumaNode" ->
            \/ p.numa_node = None
            \/ (q.numa_node # None /\ p.numa_node[1] <= q.numa_node[1])

\* C15: the output of sort_unified_procs is a permutation of its input, in
\* non-increasing swap_kb, non-increasing gpu_memory_kb with None as 0,
\* non-decreasing name, or non-decreasing numa_node with None first,
\* according to the sort column.
C15_RankOrder ==
    call_done =>
        /\ Len(RankOut) = Len(RankIn)
        /\ \A i \in 1..Len(RankIn) : \E j \in 1..Len(RankOut) : RankOut[j] = RankIn[i]
        /\ \A i, j \in 1..Len(RankOut) :
               i < j => InOrder(call_args.col, RankOut[i], RankOut[j])
\* a list ranked by node whose first record had a node and whose record
\* without node came out first
C15_Witness ==
    /\ call_done /\ call_args.col = "NumaNode" /\ Len(RankOut) = 3
    /\ RankIn[1].numa_node # None
    /\ RankOut[1].numa_node = None /\ RankOut[2].numa_node # None

\* the two records compare Equal under the comparator of the sort column
RankEqual(col, p, q) ==
    CASE col = "Swap" -> p.swap_kb = q.swap_kb
      [] col = "GpuMem" ->
            (IF p.gpu_memory_kb = None THEN 0 ELSE p.gpu_memory_kb[1])
                = (IF q.gpu_memory_kb = None THEN 0 ELSE q.gpu_memory_kb[1])
      [] col = "Name" -> p.name = q.name
      [] col = "NumaNode" -> p.numa_node = q.numa_node
\* where the record of a pid stands in the output
RankPos(pid) == CHOOSE j \in 1..Len(RankOut) : RankOut[j].pid = pid

\* C16: two records that compare equal under the sort column stand in the
\* output of sort_unified_procs in the order they had in its input.
C16_RankStable ==
    call_done =>
        \A i, j \in 1..Len(RankIn) :
            (i < j /\ RankEqual(call_args.col, RankIn[i], RankIn[j])) =>
                RankPos(RankIn[i].pid) < RankPos(RankIn[j].pid)
\* two records equal under the sort column that came in with the larger pid
\* first, behind a record the sort moved in front of them, and kept their order
C16_Witness ==
    /\ call_done /\ Len(RankIn) = 3
    /\ RankEqual(call_args.col, RankIn[1], RankIn[2])
    /\ RankIn[1].pid > RankIn[2].pid
    /\ RankOut[1] = RankIn[3] /\ RankOut[2] = RankIn[1] /\ RankOut[3] = RankIn[2]

(***************************************************************************)
(* The scenario of the correlation followed by the ranking, checked under  *)
(* SpecUnified.                                                            *)
(***************************************************************************)
\* swap = [a 100, b 5000], accelerator = [c 10000], ranked by swap
ScenarioCalled ==
    /\ call_done
    /\ call_args.swap_procs =
           << [pid |-> 1, name |-> "a", swap_size |-> 100 * F64Scale],
              [pid |-> 2, name |-> "b", swap_size |-> 5000 * F64Scale] >>
    /\ call_args.gpu_procs =
           << [pid |-> 3, name |-> "c", gpu_index |-> 0, gpu_memory_used_kb |-> 10000] >>
    /\ call_args.col = "Swap"
ResultNames == [i \in 1..Len(call_result) |-> call_result[i].name]

\* C17 (as stated): the scenario yields the order c, b, a.
C17_Original == ScenarioCalled => ResultNames = <<"c", "b", "a">>
\* C17 (amended): the scenario yields the order b (5000), a (100), c
\* (accelerator only, swap_kb 0).
C17_Scenario == ScenarioCalled => ResultNames = <<"b", "a", "c">>
\* the scenario was run and its last record is the accelerator-only one
C17_Witness ==
    /\ ScenarioCalled
    /\ Len(call_result) = 3
    /\ call_result[3].location = "GpuOnly" /\ call_result[3].swap_kb = 0
    /\ call_result[1].swap_kb = 5000 /\ call_result[2].swap_kb = 100

(***************************************************************************)
(* The unit of the swap sizes, checked under SpecUnits.                    *)
(***************************************************************************)
\* C18 (as stated): whatever the display unit, the swap_kb of every unified
\* record built on a tick is the swap amount of its process in kibibytes.
C18_SwapKbInKib ==
    "refresh_unified_data" \in invoked =>
        \A i \in 1..Len(unified_procs) :
            \E all_processes \in ProviderProcs :
                /\ all_processes.ok
                /\ \E k \in 1..Len(all_processes.value) :
                       /\ all_processes.value[k].ok
                       /\ all_processes.value[k].value.pid = unified_procs[i].pid
                       /\ all_processes.value[k].value.status.ok
                       /\ all_processes.value[k].value.status.value.vmswap
                              = Some(unified_procs[i].swap_kb)

(***************************************************************************)
(* Properties of parse_cpulist, checked under SpecCpulist.                 *)
(***************************************************************************)
\* an integer of a range list: one or more decimal digits
Numeral(tok) ==
    tok # << >> /\ \A i \in 1..Len(tok) : \E d \in 1..Len(DigitChars) : DigitChars[d] = tok[i]
\* the token is a single integer or a range start-end with start <= end
ValidToken(tok) ==
    \/ Numeral(tok)
    \/ \E d \in 2..(Len(tok) - 1) :
          /\ tok[d] = "-"
          /\ Numeral(SubSeq(tok, 1, d - 1))
          /\ Numeral(SubSeq(tok, d + 1, Len(tok)))
          /\ parse_u32(SubSeq(tok, 1, d - 1))[1] <= parse_u32(SubSeq(tok, d + 1, Len(tok)))[1]
\* the integers a valid token covers
Covered(tok) ==
    IF Numeral(tok) THEN {parse_u32(tok)[1]}
    ELSE LET d == CHOOSE d \in 2..(Len(tok) - 1) : tok[d] = "-"
         IN  parse_u32(SubSeq(tok, 1, d - 1))[1]..parse_u32(SubSeq(tok, d + 1, Len(tok)))[1]
\* a range-list string: tokens separated by commas, every one valid
ValidCpulist(str) ==
    str # << >> /\ \A t \in 1..Len(split(str, ",")) : ValidToken(split(str, ",")[t])
CoveredBy(str) == UNION {Covered(split(str, ",")[t]) : t \in 1..Len(split(str, ","))}

\* C19 (as stated): on a valid range-list string parse_cpulist returns the
\* integers covered by the tokens, sorted ascending and without duplicate,
\* the smallest first and the largest last; the empty string yields the empty
\* sequence.
C19_SortedDeduplicated ==
    /\ (call_done /\ call_args = << >>) => call_result = << >>
    /\ (call_done /\ ValidCpulist(call_args)) =>
           /\ \A i, j \in 1..Len(call_result) : i < j => call_result[i] < call_result[j]
           /\ {call_result[i] : i \in 1..Len(call_result)} = CoveredBy(call_args)
           /\ \A v \in CoveredBy(call_args) :
                  call_result[1] <= v /\ v <= call_result[Len(call_result)]

(***************************************************************************)
(* Properties of classify_numa_node, checked under SpecClassify.           *)
(***************************************************************************)
\* the node id a file name of the node directory carries
NodeIdOf(name) ==
    CASE name = <<"n", "o", "d", "e", "0">> -> Some(0)
      [] name = <<"n", "o", "d", "e", "1">> -> Some(1)
      [] name = <<"n", "o", "d", "e", "2">> -> Some(2)
      [] OTHER -> None
\* the node carries the kind of the rule, for the map of the call
KindByRule(n) ==
    LET g == call_args.gpu_map
    IN  /\ n.cpus # << >> => n.node_type = [kind |-> "Cpu"]
        /\ (n.cpus = << >> /\ n.id \in DOMAIN g) =>
               n.node_type = [kind |-> "GpuHbm", gpu_index |-> g[n.id]]
        /\ (n.cpus = << >> /\ n.id \notin DOMAIN g) =>
               n.node_type = [kind |-> "Unknown"]

\* C20: every node of a discovered topology is Cpu when its CPU list is not
\* empty, whatever the map holds; GpuHbm with the mapped index when its CPU
\* list is empty and its id is a key of the map; Unknown otherwise.  The
\* topology has one node for each node<id> entry of a readable directory.
\* Every node held in the topology cache carries the kind of this rule, and
\* the cache holds, once the prologue has read it, the topology discovered.
C20_Classification ==
    LET dir == call_args.read_dir
        readable == dir.ok /\ \A i \in 1..Len(dir.value) : dir.value[i].ok
    IN  call_done =>
            /\ call_result.ok <=> readable
            /\ call_result.ok =>
                   /\ {call_result.value[i].id : i \in 1..Len(call_result.value)}
                          = {NodeIdOf(dir.value[i].value.file_name)[1] :
                                i \in {k \in 1..Len(dir.value) :
                                          NodeIdOf(dir.value[k].value.file_name) # None}}
                   /\ \A i \in 1..Len(call_result.value) : KindByRule(call_result.value[i])
            /\ \A i \in 1..Len(numa_nodes) : KindByRule(numa_nodes[i])
            /\ pc = "loop" =>
                   numa_nodes = (IF call_result.ok THEN call_result.value ELSE << >>)
\* a topology in the cache with a node with CPUs whose id is a key of the
\* map, classified Cpu, and a node without CPUs classified GpuHbm with the
\* mapped index
C20_Witness ==
    /\ call_done /\ pc = "loop" /\ Len(numa_nodes) = 2
    /\ numa_nodes[1].cpus = <<0, 1>> /\ numa_nodes[1].id \in DOMAIN call_args.gpu_map
    /\ numa_nodes[1].node_type = [kind |-> "Cpu"]
    /\ numa_nodes[2].cpus = << >> /\ numa_nodes[2].id \in DOMAIN call_args.gpu_map
    /\ numa_nodes[2].node_type =
           [kind |-> "GpuHbm", gpu_index |-> call_args.gpu_map[numa_nodes[2].id]]

(***************************************************************************)
(* Properties of parse_numa_maps, checked under SpecNumaMaps.              *)
(***************************************************************************)
\* the N<id>=<pages> tokens of the text, by line and position
CountTokens ==
    {lt \in (1..Len(call_args.ls)) \X (1..MaxTokens + 1) :
        lt[2] <= Len(call_args.ls[lt[1]]) /\ call_args.ls[lt[1]][lt[2]].counts # None}
CountOf(lt) == call_args.ls[lt[1]][lt[2]].counts[1]
RECURSIVE SumPages(_)
SumPages(S) ==
    IF S = {} THEN 0
    ELSE LET lt == CHOOSE x \in S : TRUE IN CountOf(lt)[2] + SumPages(S \ {lt})
NodesNamed == {CountOf(lt)[1] : lt \in CountTokens}

\* the record has the page counts of the tokens of the text
PagesOfText(r) ==
    /\ DOMAIN r.pages_per_node = NodesNamed
    /\ \A n \in NodesNamed :
           r.pages_per_node[n] = SumPages({lt \in CountTokens : CountOf(lt)[1] = n})
    /\ r.total_pages = SumPages(CountTokens)
\* the sum of the page counts of a record, node by node
RECURSIVE SumPerNode(_, _)
SumPerNode(r, nodes) ==
    IF nodes = {} THEN 0
    ELSE LET n == CHOOSE x \in nodes : TRUE
         IN  r.pages_per_node[n] + SumPerNode(r, nodes \ {n})

\* C21: the page count parse_numa_maps returns for a node id is the sum of the
\* pages of all N<id>=<pages> tokens of that id over all lines, no other node
\* id is in the map, and total_pages is the sum of the per-node counts.  The
\* distribution cache holds, after the refresh that read the text, the record
\* returned, and in every record of the cache total_pages is the sum of
\* pages_per_node.
C21_PagesSummed ==
    call_done =>
        /\ call_result.ok
        /\ PagesOfText(call_result.value)
        /\ process_numa_infos = <<call_result.value>>
        /\ \A i \in 1..Len(process_numa_infos) :
               /\ PagesOfText(process_numa_infos[i])
               /\ process_numa_infos[i].total_pages =
                      SumPerNode(process_numa_infos[i],
                                 DOMAIN process_numa_infos[i].pages_per_node)
\* a text that names node 0 on two lines and node 1 once, its lines ended by
\* a carriage return and a line feed, and its record in the cache
C21_Witness ==
    /\ call_done /\ Len(call_args.ls) = 2 /\ call_args.eol = <<"\r", "\n">>
    /\ \E lt \in CountTokens : lt[1] = 1 /\ CountOf(lt) = <<0, 1>>
    /\ \E lt \in CountTokens : lt[1] = 2 /\ CountOf(lt) = <<0, 2>>
    /\ \E lt \in CountTokens : CountOf(lt)[1] = 1
    /\ Len(process_numa_infos) = 1
    /\ process_numa_infos[1].pages_per_node[0] = 3
    /\ process_numa_infos[1].total_pages = 6

(***************************************************************************)
(* Properties of the CSV parsers, checked under SpecGpuCsv.                *)
(***************************************************************************)
\* the lines whose required numeric fields all hold an integer: index, pid
\* and memory of a process line; index and the three memory amounts of a
\* device line
RowExpected(fields) ==
    IF call_args.parser = "processes"
    THEN Len(fields) >= 4 /\ \A k \in {1, 2, 4} : fields[k].num # None
    ELSE Len(fields) >= 7 /\ \A k \in {1, 3, 4, 5} : fields[k].num # None
RowsExpected == {i \in 1..Len(call_args.ls) : RowExpected(call_args.ls[i])}

\* C22: the CSV parsers return one row for each line that has the minimum
\* field count and whose required numeric fields (device index, pid, memory
\* amounts) all parse as integers, and no row for any other line.
C22_RowOnlyIfNumeric ==
    call_done => Len(call_result) = Cardinality(RowsExpected)

(***************************************************************************)
(* Properties of aggregate_processes, checked under SpecAggregate.         *)
(***************************************************************************)
Named(name) == {i \in 1..Len(call_args) : call_args[i].name = name}
RECURSIVE SumSwap(_)
SumSwap(S) ==
    IF S = {} THEN 0
    ELSE LET i == CHOOSE x \in S : TRUE IN call_args[i].swap_size + SumSwap(S \ {i})

\* C23: aggregate_processes returns one record for each distinct name of its
\* input; the record's swap_size is the sum of the swap sizes of the input
\* records of that name and its pid is their number; the output is ordered by
\* swap_size non-increasing (and is empty for an empty input).
C23_Aggregated ==
    call_done =>
        /\ {call_result[i].name : i \in 1..Len(call_result)}
               = {call_args[i].name : i \in 1..Len(call_args)}
        /\ \A i, j \in 1..Len(call_result) :
               call_result[i].name = call_result[j].name => i = j
        /\ \A i \in 1..Len(call_result) :
               /\ call_result[i].swap_size = SumSwap(Named(call_result[i].name))
               /\ call_result[i].pid = Cardinality(Named(call_result[i].name))
        /\ \A i \in 1..(Len(call_result) - 1) :
               call_result[i].swap_size >= call_result[i + 1].swap_size
\* two records of one name behind a record of another, smaller in each record
\* and larger in sum
C23_Witness ==
    /\ call_done /\ Len(call_args) = 3 /\ Len(call_result) = 2
    /\ call_args[1].swap_size > call_args[2].swap_size
    /\ call_args[2].name = call_args[3].name
    /\ call_result[1].name = call_args[2].name
    /\ call_result[1].pid = 2
    /\ call_result[1].swap_size = call_args[2].swap_size + call_args[3].swap_size

(***************************************************************************)
(* Order of the correlation output, checked under SpecMerge.               *)
(***************************************************************************)
Combined(r) == r.swap_kb + (IF r.gpu_memory_kb = None THEN 0 ELSE r.gpu_memory_kb[1])

\* C24: the sequence merge_process_data returns is ordered by combined memory
\* (swap_kb plus gpu_memory_kb, absent counted as 0), non-increasing.
C24_CombinedOrder ==
    m_called =>
        \A i \in 1..(Len(m_result) - 1) :
            Combined(m_result[i]) >= Combined(m_result[i + 1])
\* an accelerator-only process ahead of a process with swap, and a process
\* with more swap behind one with less swap and accelerator memory
C24_Witness ==
    /\ m_called /\ Len(m_result) = 3
    /\ \E i, j \in ResultIdx :
           /\ i < j
           /\ m_result[i].swap_kb = 0 /\ m_result[j].swap_kb > 0
           /\ Combined(m_result[i]) > Combined(m_result[j])
    /\ \E i, j \in ResultIdx :
           /\ i < j
           /\ m_result[i].gpu_memory_kb # None
           /\ 0 < m_result[i].swap_kb /\ m_result[i].swap_kb < m_result[j].swap_kb

(***************************************************************************)
(* Properties of get_numa_topology, checked under SpecTopology.            *)
(***************************************************************************)
\* the bus address of the device of index d resolves to the node of this id
Resolves(d, id) ==
    \E i \in 1..Len(call_args.devices) :
        /\ call_args.devices[i].index = d
        /\ call_args.sysfs[call_args.devices[i].pci_bus_id] \in
               {Some(<<"0", "\n">>), Some(<<"2", "\n">>)}
        /\ call_args.sysfs[call_args.devices[i].pci_bus_id][1][1] = DigitChars[id + 1]

\* C25: in the topology get_numa_topology returns, a node without CPUs is
\* classified GpuHbm exactly when the bus address of some device resolves to
\* the node's id, and the gpu_index it carries is the index of such a device.
C25_AffinityByNodeId ==
    (call_done /\ call_result.ok) =>
        \A i \in 1..Len(call_result.value) :
            LET n == call_result.value[i] IN
            n.cpus = << >> =>
                /\ n.node_type.kind = "GpuHbm" <=>
                       \E d \in 0..(MaxDevices - 1) : Resolves(d, n.id)
                /\ n.node_type.kind = "GpuHbm" => Resolves(n.node_type.gpu_index, n.id)

(***************************************************************************)
(* Determinism of correlation and ranking, checked under SpecCorrelate.    *)
(***************************************************************************)
\* C26: correlation followed by ranking is deterministic: on the same swap,
\* accelerator, distribution and node inputs and the same sort column, every
\* run returns the same sequence of records, whatever the iteration order of
\* the HashMaps used inside.
C26_Deterministic ==
    m_called =>
        \A m \in merge_process_data(m_swap_procs, m_gpu_procs, m_numa_infos, m_numa_nodes) :
            sort_unified_procs(m, call_args) = m_result

(***************************************************************************)
(* Properties of the distribution refresh, checked under SpecLongList.     *)
(***************************************************************************)
\* the processes of the swap list read at the refresh that have more swap
\* than the process at position i
Larger(i) ==
    {j \in 1..Len(call_args.swap.value) :
        call_args.swap.value[j].swap_size > call_args.swap.value[i].swap_size}

\* C27: the distribution class is fetched only when the active view is the
\* NUMA view; the cache holds at most NUMA_MAPS_TOP (20) records, for distinct
\* pids, each a process of the swap list read at the refresh with fewer than
\* 20 processes above it and with a readable numa_maps file.
C27_TopConsumers ==
    /\ "maps" \in attempted => active_view = "Numa"
    /\ Len(process_numa_infos) <= NUMA_MAPS_TOP
    /\ \A i, j \in 1..Len(process_numa_infos) :
           process_numa_infos[i].pid = process_numa_infos[j].pid => i = j
    /\ \A i \in 1..Len(process_numa_infos) :
           /\ call_args.swap.ok
           /\ \E k \in 1..Len(call_args.swap.value) :
                  /\ call_args.swap.value[k].pid = process_numa_infos[i].pid
                  /\ Cardinality(Larger(k)) < NUMA_MAPS_TOP
           /\ call_args.maps[process_numa_infos[i].pid].ok
\* a list of 22 processes with rising swap: the two smallest are left out,
\* and so is the largest, whose numa_maps file is unreadable
C27_Witness ==
    /\ call_done /\ active_view = "Numa" /\ "maps" \in attempted
    /\ call_args.swap.ok /\ Len(call_args.swap.value) = NUMA_MAPS_TOP + 2
    /\ call_args.swap.value[1].swap_size < call_args.swap.value[2].swap_size
    /\ call_args.maps[1].ok /\ call_args.maps[2].ok
    /\ ~call_args.maps[NUMA_MAPS_TOP + 2].ok
    /\ Len(process_numa_infos) = NUMA_MAPS_TOP - 1
    /\ \A i \in 1..Len(process_numa_infos) :
           process_numa_infos[i].pid \notin {1, 2, NUMA_MAPS_TOP + 2}

(***************************************************************************)
(* The unified list and the sort column, checked under SpecSort.           *)
(***************************************************************************)
\* C28: whenever the unified view is drawn (at the end of every pass of the
\* loop made in that view), the unified list is ordered according to the sort
\* column selected at that moment.
C28_DrawnInColumnOrder ==
    (pc = "loop" /\ active_view = "Unified") =>
        \A i \in 1..(Len(unified_procs) - 1) :
            InOrder(sort_column, unified_procs[i], unified_procs[i + 1])

(***************************************************************************)
(* Quitting, checked under SpecControl.                                    *)
(***************************************************************************)
\* C29 (as stated): a pass of the loop that handles a quit key (q, Esc,
\* Ctrl-C) leaves running false and run returned, with Ok unless the terminal
\* itself failed in that pass; once run has started, running is never set to
\* true again; a pass that handles another key leaves running as it was.
C29_QuitReturnsOk ==
    [][/\ \A key \in {"q", "Esc", "Ctrl-c"}, d \in {0, TickWait} :
              KeyPress(key, Provider(NoDelay), d) =>
                  (~running' /\ pc' \in {"done", "failed_terminal"})
       /\ \A key \in {"Tab", "Left", "Right", "t", "h"}, d \in {0, TickWait} :
              KeyPress(key, Provider(NoDelay), d) => running' = running
       /\ (pc # "start" /\ ~running) => ~running']_vars

(***************************************************************************)
(* The tick interval, checked under SpecControl.                           *)
(***************************************************************************)
\* C30: the tick interval starts at 1000 ms and stays within 1..10000; a pass
\* that handles Left leaves it 100 lower, but not below 1; a pass that handles
\* Right leaves it 100 higher, but not above 10000; a step of the running
\* loop that changes it is a pass that handles Left or Right, so every other
\* step (another key, no key, a tick) leaves it as it was.
C30_TimeoutBounds ==
    [][/\ 1 <= timeout /\ timeout <= 10000
       /\ 1 <= timeout' /\ timeout' <= 10000
       /\ pc = "start" => timeout = 1000
       /\ (pc = "loop" /\ pc' = "loop") =>
              LET Pass(key) == \E d \in {0, TickWait} : KeyPress(key, ProviderNoDelay, d)
              IN  /\ Pass("Left") =>
                         timeout' = (IF timeout - 100 < 1 THEN 1 ELSE timeout - 100)
                  /\ Pass("Right") =>
                         timeout' = (IF timeout + 100 > 10000 THEN 10000 ELSE timeout + 100)
                  /\ timeout' # timeout => (Pass("Left") \/ Pass("Right"))]_vars
\* the interval after Left held it at 1 and Right raised it once
C30_Witness == pc = "loop" /\ timeout = 101

====
